---- MODULE Spec2Model ----
(***************************************************************************)
(* A model of the RAPID AI condition-monitoring engine (rapid_ai_engine):  *)
(* the DataGuard quality gate (module 0), the /rapid-ai/evaluate           *)
(* orchestrator with its thread pool, and the Fusion stage (module C).     *)
(*                                                                         *)
(* Python floats are IEEE-754 binary64.  Where the code multiplies, adds,  *)
(* divides, compares or rounds floats the model does the same arithmetic   *)
(* exactly: a float is a record [m, e] standing for m * 2^e with m a       *)
(* 53-bit mantissa held as a little-endian sequence of 14-bit limbs, and   *)
(* every operation rounds to nearest, ties to even.  Only non-negative     *)
(* finite values occur in the modelled computations.                       *)
(***************************************************************************)
EXTENDS Integers, Sequences, FiniteSets, TLC

\* ------------------------------------------------------------------------
\* Python float arithmetic (binary64)
\* ------------------------------------------------------------------------

LimbBits == 2 * 7
LimbBase == 2 ^ LimbBits
\* 52 stored mantissa bits and the implicit leading one
MantBits == 52 + 1

RECURSIVE Pow2(_)
Pow2(k) == IF k = 0 THEN 1 ELSE 2 * Pow2(k - 1)

RECURSIVE BitLenInt(_)
BitLenInt(n) == IF n = 0 THEN 0 ELSE 1 + BitLenInt(n \div 2)

RECURSIVE BNorm(_)
BNorm(a) == IF a = <<>> THEN a
            ELSE IF a[Len(a)] = 0 THEN BNorm(SubSeq(a, 1, Len(a) - 1)) ELSE a

RECURSIVE BFromInt(_)
BFromInt(n) == IF n = 0 THEN <<>> ELSE <<n % LimbBase>> \o BFromInt(n \div LimbBase)

RECURSIVE BToInt(_)
BToInt(a) == IF a = <<>> THEN 0 ELSE a[1] + LimbBase * BToInt(Tail(a))

RECURSIVE BAddC(_, _, _)
BAddC(a, b, c) ==
    IF a = <<>> /\ b = <<>> THEN (IF c = 0 THEN <<>> ELSE <<c>>)
    ELSE LET x == IF a = <<>> THEN 0 ELSE a[1]
             y == IF b = <<>> THEN 0 ELSE b[1]
             s == x + y + c
         IN  <<s % LimbBase>> \o BAddC(IF a = <<>> THEN a ELSE Tail(a),
                                       IF b = <<>> THEN b ELSE Tail(b),
                                       s \div LimbBase)

BAdd(a, b) == BAddC(a, b, 0)

RECURSIVE BSubC(_, _, _)
BSubC(a, b, c) ==
    IF a = <<>> THEN <<>>
    ELSE LET y == IF b = <<>> THEN 0 ELSE b[1]
             d == a[1] - y - c
         IN  <<IF d < 0 THEN d + LimbBase ELSE d>>
             \o BSubC(Tail(a), IF b = <<>> THEN b ELSE Tail(b), IF d < 0 THEN 1 ELSE 0)

BSub(a, b) == BNorm(BSubC(a, b, 0))

RECURSIVE BCmpTop(_, _, _)
BCmpTop(a, b, i) == IF i = 0 THEN 0
                    ELSE IF a[i] > b[i] THEN 1
                    ELSE IF a[i] < b[i] THEN -1
                    ELSE BCmpTop(a, b, i - 1)

BCmp(a, b) == IF Len(a) > Len(b) THEN 1
              ELSE IF Len(a) < Len(b) THEN -1
              ELSE BCmpTop(a, b, Len(a))

RECURSIVE BMulSmallC(_, _, _)
BMulSmallC(a, k, c) ==
    IF a = <<>> THEN (IF c = 0 THEN <<>> ELSE BFromInt(c))
    ELSE LET p == a[1] * k + c
         IN  <<p % LimbBase>> \o BMulSmallC(Tail(a), k, p \div LimbBase)

BMulSmall(a, k) == IF k = 0 THEN <<>> ELSE BMulSmallC(a, k, 0)

RECURSIVE BMul(_, _)
BMul(a, b) == IF a = <<>> \/ b = <<>> THEN <<>>
              ELSE LET rest == BMul(a, Tail(b))
                   IN  BAdd(BMulSmall(a, b[1]),
                            IF rest = <<>> THEN rest ELSE <<0>> \o rest)

RECURSIVE BDivSmallTop(_, _, _, _)
BDivSmallTop(a, k, i, r) ==
    IF i = 0 THEN <<>>
    ELSE LET cur == r * LimbBase + a[i]
         IN  BDivSmallTop(a, k, i - 1, cur % k) \o <<cur \div k>>

BDivSmall(a, k) == BNorm(BDivSmallTop(a, k, Len(a), 0))

Zeros(n) == [i \in 1..n |-> 0]

BShl(a, s) == IF a = <<>> THEN a
              ELSE Zeros(s \div LimbBits) \o BMulSmall(a, Pow2(s % LimbBits))

BShr(a, s) == IF Len(a) <= s \div LimbBits THEN <<>>
              ELSE BDivSmall(SubSeq(a, (s \div LimbBits) + 1, Len(a)), Pow2(s % LimbBits))

BBitLen(a) == IF a = <<>> THEN 0
              ELSE LimbBits * (Len(a) - 1) + BitLenInt(a[Len(a)])

BOdd(a) == a # <<>> /\ a[1] % 2 = 1

\* q rounded up when the part shifted out compares (c) above one half, or
\* equals one half and q is odd
RoundUp(q, c) == IF c > 0 \/ (c = 0 /\ BOdd(q)) THEN BAdd(q, <<1>>) ELSE q

\* the quotient q = a \div 2^s corrected by the remainder a - q * 2^s
ShrRNEq(a, s, q) == RoundUp(q, BCmp(BSub(a, BShl(q, s)), BShl(<<1>>, s - 1)))

\* a / 2^s rounded to the nearest integer, ties to even
ShrRNE(a, s) == IF s <= 0 THEN BShl(a, 0 - s) ELSE ShrRNEq(a, s, BShr(a, s))

\* One step of long division by a divisor d of exactly four limbs whose top
\* limb is at least LimbBase / 2: the quotient digit of cur (at most five
\* limbs, cur < d * LimbBase) is at most two below the estimate taken from
\* the two top limbs of cur and the top limb of d.
QFits(cur, d, c) == c >= 0 /\ BCmp(BMulSmall(d, c), cur) <= 0

QDigitFrom(cur, d, qh) ==
    IF QFits(cur, d, qh) THEN qh ELSE IF QFits(cur, d, qh - 1) THEN qh - 1 ELSE qh - 2

QDigit(cur, d) ==
    LET top  == IF Len(cur) >= 5 THEN cur[5] * LimbBase + cur[4]
                ELSE IF Len(cur) = 4 THEN cur[4] ELSE 0
        est  == top \div d[4]
    IN  QDigitFrom(cur, d, IF est > LimbBase - 1 THEN LimbBase - 1 ELSE est)

\* long division, one limb of n at a time from the top; q is little-endian
RECURSIVE BDivModTop(_, _, _, _, _)
\* the step with the quotient digit qd of cur
BDivModDigit(n, d, i, q, cur, qd) ==
    BDivModTop(n, d, i - 1, <<qd>> \o q, BSub(cur, BMulSmall(d, qd)))

\* the step with cur, the remainder so far followed by limb i of n
BDivModCur(n, d, i, q, cur) == BDivModDigit(n, d, i, q, cur, QDigit(cur, d))

BDivModTop(n, d, i, q, r) ==
    IF i = 0 THEN <<BNorm(q), r>>
    ELSE BDivModCur(n, d, i, q, BNorm(<<n[i]>> \o r))

BDivMod(n, d) == BDivModTop(n, d, Len(n), <<>>, <<>>)

FZero == [m |-> <<>>, e |-> 0]

\* a rounded mantissa q that carried into bit MantBits + 1 is halved
Renorm(q, e) == IF BBitLen(q) > MantBits
                THEN [m |-> BShr(q, 1), e |-> e + 1]
                ELSE [m |-> q, e |-> e]

\* m * 2^e for a mantissa m of L bits, brought to MantBits bits
RoundFL(m, e, L) ==
    IF L <= MantBits THEN [m |-> BShl(m, MantBits - L), e |-> e - (MantBits - L)]
    ELSE Renorm(ShrRNE(m, L - MantBits), e + (L - MantBits))

\* the float nearest to m * 2^e
RoundF(m, e) == IF m = <<>> THEN FZero ELSE RoundFL(m, e, BBitLen(m))

FromInt(n) == RoundF(BFromInt(n), 0)

FMul(a, b) == IF a.m = <<>> \/ b.m = <<>> THEN FZero
              ELSE RoundF(BMul(a.m, b.m), a.e + b.e)

FAdd(a, b) == IF a.m = <<>> THEN b
              ELSE IF b.m = <<>> THEN a
              ELSE LET e == IF a.e < b.e THEN a.e ELSE b.e
                   IN  RoundF(BAdd(BShl(a.m, a.e - e), BShl(b.m, b.e - e)), e)

\* the quotient with a sticky bit for a non-zero remainder, rounded
FDivRound(qr, e) ==
    RoundF(BAdd(BMulSmall(qr[1], 2), IF qr[2] = <<>> THEN <<>> ELSE <<1>>), e)

\* both mantissas are scaled by 8 so that the divisor fills four limbs
FDiv(a, b) == IF a.m = <<>> THEN FZero
              ELSE FDivRound(BDivMod(BShl(a.m, MantBits + 6), BShl(b.m, 3)),
                             a.e - b.e - (MantBits + 3) - 1)

FCmp(a, b) == IF a.m = <<>> /\ b.m = <<>> THEN 0
              ELSE IF a.m = <<>> THEN -1
              ELSE IF b.m = <<>> THEN 1
              ELSE IF a.e > b.e THEN 1
              ELSE IF a.e < b.e THEN -1
              ELSE BCmp(a.m, b.m)

FLt(a, b) == FCmp(a, b) < 0
FGe(a, b) == FCmp(a, b) >= 0
FGt(a, b) == FCmp(a, b) > 0
FLe(a, b) == FCmp(a, b) <= 0

\* the float nearest to the decimal n / d: the value of a float literal
Dec(n, d) == FDiv(FromInt(n), FromInt(d))

\* round(x, 4) as an integer number of ten-thousandths
Round4(a) == IF a.m = <<>> THEN 0
             ELSE BToInt(ShrRNE(BMulSmall(a.m, 10000), 0 - a.e))

\* 1.0
FOne == [m |-> <<0, 0, 0, 1024>>, e |-> -52]

\* max(0.0, min(1.0, x))
Clamp01(x) == IF FGt(x, FOne) THEN FOne ELSE x

\* ------------------------------------------------------------------------
\* Module 0: DataGuard (modules/module0_dataguard.py)
\* ------------------------------------------------------------------------

\* An Optional[T] value is a sequence of at most one element; <<>> is None.
None == <<>>
Some(x) == <<x>>

\* The non-ASCII spellings of the source ("m/s^2" with a superscript two and
\* the micro sign in "um") are left out; no modelled request uses them.
ALLOWED_UNITS ==
    [velocity     |-> {"mm/s", "inch/s", "in/s"},
     acceleration |-> {"g", "m/s2"},
     displacement |-> {"um", "mm", "mil"}]

ALLOWED_FS ==
    [velocity     |-> {256, 512, 1024, 2048, 2560, 5120, 6400, 10240, 25600, 51200},
     acceleration |-> {256, 512, 1024, 2048, 2560, 5120, 6400, 10240, 25600, 51200},
     displacement |-> {256, 512, 1024, 2048, 2560, 5120, 6400}]

MIN_SAMPLES == 256

\* The penalties 0.6, 0.5, 0.7, 0.4, 0.9, 0.6, 0.85, 0.8 and the status
\* thresholds 0.8, 0.5, each the binary64 value of the literal in the source
\* (0.6 is 0x3FE3333333333333, ...).
PENALTY_NAN == [m |-> <<13107, 3276, 13107, 1228>>, e |-> -53]
PENALTY_CLIP == [m |-> <<0, 0, 0, 1024>>, e |-> -53]
PENALTY_FS == [m |-> <<9830, 6553, 9830, 1433>>, e |-> -53]
PENALTY_FLATLINE == [m |-> <<6554, 9830, 6553, 1638>>, e |-> -54]
PENALTY_OUTLIER == [m |-> <<3277, 13107, 3276, 1843>>, e |-> -53]
PENALTY_SPIKE == [m |-> <<13107, 3276, 13107, 1228>>, e |-> -53]
PENALTY_RPM == [m |-> <<13107, 3276, 13107, 1740>>, e |-> -53]
PENALTY_MAGNET == [m |-> <<6554, 9830, 6553, 1638>>, e |-> -53]
PASS_THRESHOLD == [m |-> <<6554, 9830, 6553, 1638>>, e |-> -53]
WARN_THRESHOLD == [m |-> <<0, 0, 0, 1024>>, e |-> -53]

\* round(n / d, 6) as an integer number of millionths (ties to even)
Round6Frac(n, d) ==
    LET q == (n * 1000000) \div d
        r == (n * 1000000) % d
    IN  IF 2 * r > d \/ (2 * r = d /\ q % 2 = 1) THEN q + 1 ELSE q

\* The list signal.values is modelled by the statistics that DataGuard takes
\* from it: values.len = len(values), nan_count = the number of NaN samples,
\* and, over the clean (non-NaN) samples, clip_count (samples at the
\* extremes), detrended_std = std(diff(clean)) in units of 1e-9, std_dev and
\* rms in millionths (the code rounds both to six decimals), kurtosis and
\* crest_factor in ten-thousandths (rounded to four decimals), and
\* outlier_count = the number of samples with |z| > 3.
compute_metrics(values) ==
    LET n     == values.len
        clean == n - values.nan_count
    IN  IF clean < 2
        THEN [sample_count |-> n, nan_count |-> values.nan_count,
              std_dev |-> 0, rms |-> 0, crest_factor |-> 0, kurtosis |-> 0,
              clip_fraction |-> 0]
        ELSE [sample_count |-> n, nan_count |-> values.nan_count,
              std_dev |-> values.std_dev, rms |-> values.rms,
              crest_factor |-> values.crest_factor, kurtosis |-> values.kurtosis,
              clip_fraction |-> IF clean > 10
                                THEN Round6Frac(values.clip_count, clean)
                                ELSE 0]

\* SignalMetrics()
DefaultMetrics ==
    [sample_count |-> 0, nan_count |-> 0, std_dev |-> 0, rms |-> 0,
     crest_factor |-> 0, kurtosis |-> 0, clip_fraction |-> 0]

\* The hard checks without the unit check DG_005.
HardReasons_NoUnitCheck(request) ==
    (IF request.asset_id = "" \/ request.timestamp_utc = ""
     THEN <<"DG_001">> ELSE <<>>)
    \o (IF request.signal.values.len < MIN_SAMPLES THEN <<"DG_002">> ELSE <<>>)

\* The hard checks DG_001, DG_002, DG_005: the reasons they append, in order.
HardReasons(request) ==
    (IF request.asset_id = "" \/ request.timestamp_utc = ""
     THEN <<"DG_001">> ELSE <<>>)
    \o (IF request.signal.values.len < MIN_SAMPLES THEN <<"DG_002">> ELSE <<>>)
    \o (IF request.signal.unit \notin ALLOWED_UNITS[request.signal.signal_type]
        THEN <<"DG_005">> ELSE <<>>)

\* The soft checks DG_003 .. DG_016: the reasons they append, in order.  A
\* fraction k / n is compared with 0.01 or 0.02 in integers: for sample
\* counts below a million the quotient is either equal to the literal or
\* further from it than a rounding error.
SoftReasons(request, metrics) ==
    LET sig   == request.signal
        clean == sig.values.len - sig.values.nan_count
    IN  (IF 100 * metrics.nan_count > metrics.sample_count
         THEN <<"DG_003">> ELSE <<>>)
        \o (IF metrics.clip_fraction > 10000 THEN <<"DG_004">> ELSE <<>>)
        \o (IF sig.sampling_rate_hz \notin ALLOWED_FS[sig.signal_type]
            THEN <<"DG_006">> ELSE <<>>)
        \o (IF clean > 10 /\ sig.values.detrended_std < 1000
            THEN <<"DG_007">> ELSE <<>>)
        \o (IF clean > 30 /\ metrics.std_dev > 1
               /\ 100 * sig.values.outlier_count > 2 * clean
            THEN <<"DG_009">> ELSE <<>>)
        \o (IF metrics.kurtosis > 80000 \/ metrics.crest_factor > 60000
            THEN <<"DG_010">> ELSE <<>>)
        \o (IF request.context # None /\ request.context[1].rpm = None
            THEN <<"DG_013">> ELSE <<>>)
        \o (IF request.context # None
               /\ request.context[1].mount_type = Some("magnet")
               /\ metrics.rms > 10000000
            THEN <<"DG_016">> ELSE <<>>)

\* The factor each soft check appends to penalties.
Penalty(code) ==
    CASE code = "DG_003" -> PENALTY_NAN
      [] code = "DG_004" -> PENALTY_CLIP
      [] code = "DG_006" -> PENALTY_FS
      [] code = "DG_007" -> PENALTY_FLATLINE
      [] code = "DG_009" -> PENALTY_OUTLIER
      [] code = "DG_010" -> PENALTY_SPIKE
      [] code = "DG_013" -> PENALTY_RPM
      [] code = "DG_016" -> PENALTY_MAGNET

\* The smallest penalty instead of the product of the penalties.
RECURSIVE QualityMin(_, _)
QualityMin(codes, acc) ==
    IF codes = <<>> THEN acc
    ELSE QualityMin(Tail(codes),
                    IF FLt(Penalty(Head(codes)), acc) THEN Penalty(Head(codes)) ELSE acc)

\* quality_score = 1.0; for p in penalties: quality_score *= p
RECURSIVE QualityProduct(_, _)
QualityProduct(codes, acc) ==
    IF codes = <<>> THEN acc
    ELSE QualityProduct(Tail(codes), FMul(acc, Penalty(Head(codes))))

\* The status with strict comparisons against the two thresholds.
StatusOf_Strict(quality) ==
    IF FGt(quality, PASS_THRESHOLD) THEN "pass"
    ELSE IF FGt(quality, WARN_THRESHOLD) THEN "warn"
    ELSE "fail"

\* if quality_score >= 0.8 ... elif quality_score >= 0.5 ... else
StatusOf(quality) ==
    IF FGe(quality, PASS_THRESHOLD) THEN "pass"
    ELSE IF FGe(quality, WARN_THRESHOLD) THEN "warn"
    ELSE "fail"

FlagsOf(codes) ==
    LET has(c) == \E i \in 1..Len(codes) : codes[i] = c
    IN  [flatline |-> has("DG_007"), nan_present |-> has("DG_003"),
         clipping_detected |-> has("DG_004"), unit_mismatch |-> has("DG_005"),
         sampling_rate_suspect |-> has("DG_006"), short_signal |-> has("DG_002"),
         outlier_burst |-> has("DG_009")]

\* run(request) of module 0; quality_score and confidence_modifier are
\* round(quality_score, 4), held as an integer number of ten-thousandths.
module0_run(request) ==
    LET hard == HardReasons(request)
    IN  IF hard # <<>>
        THEN [status |-> "block", block |-> TRUE, quality_score |-> 0,
              flags |-> FlagsOf(hard), reasons |-> hard,
              metrics |-> IF request.signal.values.len >= 2
                          THEN compute_metrics(request.signal.values)
                          ELSE DefaultMetrics,
              confidence_modifier |-> 0]
        ELSE LET metrics == compute_metrics(request.signal.values)
                 soft    == SoftReasons(request, metrics)
                 quality == Clamp01(QualityProduct(soft, FOne))
             IN  [status |-> StatusOf(quality), block |-> FALSE,
                  quality_score |-> Round4(quality),
                  flags |-> FlagsOf(soft), reasons |-> soft,
                  metrics |-> metrics,
                  confidence_modifier |-> Round4(quality)]

\* ------------------------------------------------------------------------
\* State
\* ------------------------------------------------------------------------

VARIABLES
    dg_request,     \* the request of the POST /rapid-ai/module0 call, or None
    dg_response,    \* the Module0Response returned for it, or None
    request,        \* request[r]: the FullAnalysisRequest of evaluate call r
    pc,             \* pc[r]: where the coroutine of call r stands
    trace,          \* trace[r]: the ModuleTrace of call r
    outcome,        \* outcome[r]: how call r ended, or None
    submitted,      \* submitted[r]: the stages handed to the pool, in order
    future,         \* future[r]: the result of the awaited future, or None
    queue,          \* the work queue of _executor
    running,        \* the tasks the worker threads of _executor are running
    c_request,      \* the request of the POST /rapid-ai/moduleC call, or None
    c_response,     \* the ModuleCResponse returned for it, or None
    c_previous,     \* the response to the same blocks in their previous order
    d_request,      \* the request of the POST /rapid-ai/moduleD call, or None
    d_response,     \* the ModuleDResponse returned for it, or None
    e_request,      \* the request of the POST /rapid-ai/moduleE call, or None
    e_response,     \* the ModuleEResponse returned for it, or None
    f_request,      \* the request of the POST /rapid-ai/moduleF call, or None
    f_response,     \* the ModuleFResponse returned for it, or None
    bp_request,     \* the request of the POST /rapid-ai/moduleBplus call, or None
    bp_response,    \* the ModuleBPlusResponse returned for it, or None
    bpp_request,    \* the request of the POST /rapid-ai/moduleBpp call, or None
    bpp_response,   \* the ModuleBPPResponse returned for it, or None
    b_request,      \* the request of the POST /rapid-ai/moduleB call, or None
    b_response,     \* the ModuleBResponse returned for it, or None
    bs_input,       \* the arguments of a call of _block_score, or None
    bs_score,       \* the block score returned for them, or None
    cl_input,       \* the argument of classify_severity and classify_ssi
    cl_level        \* the level and the state returned for it, or None

dg_vars == <<dg_request, dg_response>>
ev_vars == <<request, pc, trace, outcome, submitted, future, queue, running>>
c_vars == <<c_request, c_response, c_previous>>
d_vars == <<d_request, d_response>>
e_vars == <<e_request, e_response>>
f_vars == <<f_request, f_response>>
bp_vars == <<bp_request, bp_response>>
bpp_vars == <<bpp_request, bpp_response>>
b_vars == <<b_request, b_response>>
bs_vars == <<bs_input, bs_score>>
cl_vars == <<cl_input, cl_level>>
ext_vars == <<bpp_vars, b_vars, bs_vars, cl_vars>>
vars == <<dg_request, dg_response, request, pc, trace, outcome, submitted,
          future, queue, running, c_request, c_response, c_previous,
          d_request, d_response, e_request, e_response, f_request,
          f_response, bp_request, bp_response, bpp_request, bpp_response,
          b_request, b_response, bs_input, bs_score, cl_input, cl_level>>

\* ------------------------------------------------------------------------
\* POST /rapid-ai/module0 (main.py, run_module0)
\* ------------------------------------------------------------------------

SampleCounts == {0, MIN_SAMPLES - 1, MIN_SAMPLES}

SignalValues ==
    [len : SampleCounts, nan_count : {0, 3}, clip_count : {1, 3},
     detrended_std : {0, 1000}, std_dev : {1, 500000}, outlier_count : {5, 6},
     kurtosis : {80000, 90000}, crest_factor : {60000, 70000},
     rms : {10000000, 11000000}]

ValidSignalValues == {v \in SignalValues : v.nan_count <= v.len}

Signals ==
    [signal_type : {"velocity", "displacement"}, unit : {"mm/s", "mm"},
     sampling_rate_hz : {6400, 10240}, values : ValidSignalValues]

Contexts ==
    {None} \cup {Some(c) : c \in [rpm : {None, Some(1800)},
                                  mount_type : {None, Some("magnet")}]}

Module0Requests ==
    [asset_id : {"", "TEST-001"},
     timestamp_utc : {"", "2026-02-24T10:00:00Z"},
     signal : Signals, context : Contexts]

\* The endpoint keeps no state between calls; a behaviour follows one call.
run_module0 ==
    /\ dg_response = None
    /\ \E m0_req \in Module0Requests :
          /\ dg_request' = Some(m0_req)
          /\ dg_response' = Some(module0_run(m0_req))
    /\ UNCHANGED <<ev_vars, c_vars, d_vars, e_vars, f_vars, bp_vars, ext_vars>>

\* ------------------------------------------------------------------------
\* POST /rapid-ai/evaluate (main.py, evaluate) and the pool _executor
\* ------------------------------------------------------------------------

MaxRequests == 2
Requests == 1..MaxRequests

\* ThreadPoolExecutor(max_workers=4)
MAX_WORKERS == 4

\* The fields FullAnalysisRequest declares.
FullAnalysisRequestFields ==
    {"schema_version", "trace_id", "asset_id", "timestamp_utc", "machine_type",
     "system_type", "signal", "context", "component", "historical_timestamps",
     "historical_values", "criticality", "failure_threshold"}

\* A signal of n samples without NaN, clipping, outliers or spikes.
CleanValues(n) ==
    [len |-> n, nan_count |-> 0, clip_count |-> IF n = 0 THEN 0 ELSE 1,
     detrended_std |-> 1000, std_dev |-> 500000, outlier_count |-> 0,
     kurtosis |-> 0, crest_factor |-> 14142, rms |-> 2000000]

\* The requests a caller sends; criticality is held in hundredths.
FullAnalysisRequests ==
    {[asset_id |-> a, timestamp_utc |-> "2026-02-24T10:00:00Z",
      signal |-> [signal_type |-> "velocity", unit |-> "mm/s",
                  sampling_rate_hz |-> 6400, values |-> CleanValues(n)],
      context |-> Some([rpm |-> Some(1800), mount_type |-> None]),
      component |-> "afb", criticality |-> c, failure_threshold |-> ft] :
        a \in {"", "TEST-001"}, n \in SampleCounts,
        c \in {-10, 60, 110}, ft \in {0, 8}}

\* ModuleTrace()
EmptyTrace ==
    [module0 |-> None, moduleA |-> None, moduleB |-> None, moduleBplus |-> None,
     moduleBpp |-> None, moduleC |-> None, moduleD |-> None, moduleE |-> None,
     moduleF |-> None]

\* The input validation without the check for an empty signal.
Validate_NoEmptyCheck(req) ==
    IF req.failure_threshold <= 0
    THEN Some("failure_threshold must be positive")
    ELSE IF req.criticality < 0 \/ req.criticality > 100
    THEN Some("criticality must be between 0 and 1")
    ELSE None

\* The input validation: the detail of the HTTPException raised, or None.
Validate(req) ==
    IF req.failure_threshold <= 0
    THEN Some("failure_threshold must be positive")
    ELSE IF req.signal.values.len = 0
    THEN Some("signal.values cannot be empty")
    ELSE IF req.criticality < 0 \/ req.criticality > 100
    THEN Some("criticality must be between 0 and 1")
    ELSE None

Module0RequestOf(req) ==
    [asset_id |-> req.asset_id, timestamp_utc |-> req.timestamp_utc,
     signal |-> req.signal, context |-> req.context]

ModuleARequestOf(req) ==
    [asset_id |-> req.asset_id, signal_type |-> req.signal.signal_type,
     sampling_rate_hz |-> req.signal.sampling_rate_hz,
     values |-> req.signal.values, context |-> req.context]

\* run(request) of module A, as far as the orchestrator reads its response:
\* the statistics of the clean samples, or the defaults with fewer than two.
moduleA_run(mA_req) ==
    IF mA_req.values.len - mA_req.values.nan_count < 2
    THEN [overall_rms |-> 0, kurtosis |-> 0, crest_factor |-> 0]
    ELSE [overall_rms |-> mA_req.values.rms, kurtosis |-> mA_req.values.kurtosis,
          crest_factor |-> mA_req.values.crest_factor]

\* The early return with the default health stage instead of Blocked.
BlockedResponse_DefaultStage(req, tr) ==
    [asset_id |-> req.asset_id, final_severity_level |-> "normal",
     final_severity_score |-> 0, confidence |-> 0, health_stage |-> "Healthy",
     recommended_action |-> "Fix data quality issues",
     recommended_window |-> "N/A", module_trace |-> tr]

\* The FullAnalysisResponse of the early return when DataGuard blocks.
BlockedResponse(req, tr) ==
    [asset_id |-> req.asset_id, final_severity_level |-> "normal",
     final_severity_score |-> 0, confidence |-> 0, health_stage |-> "Blocked",
     recommended_action |-> "Fix data quality issues",
     recommended_window |-> "N/A", module_trace |-> tr]

Task(r, stage) == [req |-> r, stage |-> stage]

\* loop.run_in_executor(_executor, fn, arg) for the stages in stages
Submit(r, stages) ==
    /\ queue' = queue \o [i \in 1..Len(stages) |-> Task(r, stages[i])]
    /\ submitted' = [submitted EXCEPT ![r] = @ \o stages]

\* A call arrives: input validation, then DataGuard is handed to the pool and
\* awaited.  Calls are numbered in the order of their arrival.
evaluate(r) ==
    /\ pc[r] = "idle"
    /\ IF r = 1 THEN TRUE ELSE pc[r - 1] # "idle"
    /\ \E req \in FullAnalysisRequests :
          /\ request' = [request EXCEPT ![r] = Some(req)]
          /\ IF Validate(req) # None
             THEN /\ outcome' = [outcome EXCEPT ![r] =
                        Some([kind |-> "HTTPException",
                              body |-> [status_code |-> 400,
                                        detail |-> Validate(req)[1]]])]
                  /\ pc' = [pc EXCEPT ![r] = "done"]
                  /\ UNCHANGED <<trace, submitted, queue>>
             ELSE /\ trace' = [trace EXCEPT ![r] = EmptyTrace]
                  /\ Submit(r, <<"module0">>)
                  /\ pc' = [pc EXCEPT ![r] = "await_module0"]
                  /\ UNCHANGED outcome
    /\ UNCHANGED <<future, running>>
    /\ UNCHANGED <<dg_vars, c_vars, d_vars, e_vars, f_vars, bp_vars, ext_vars>>

\* An idle worker thread takes the oldest task of the work queue.
worker_start ==
    /\ queue # <<>>
    /\ Cardinality(running) < MAX_WORKERS
    /\ running' = running \cup {Head(queue)}
    /\ queue' = Tail(queue)
    /\ UNCHANGED <<request, pc, trace, outcome, submitted, future>>
    /\ UNCHANGED <<dg_vars, c_vars, d_vars, e_vars, f_vars, bp_vars, ext_vars>>

\* A worker thread finishes its task and sets the result of the future.
worker_finish ==
    /\ \E t \in running :
          /\ running' = running \ {t}
          /\ future' = [future EXCEPT ![t.req] =
                Some(IF t.stage = "module0"
                     THEN module0_run(Module0RequestOf(request[t.req][1]))
                     ELSE moduleA_run(ModuleARequestOf(request[t.req][1])))]
    /\ UNCHANGED <<request, pc, trace, outcome, submitted, queue>>
    /\ UNCHANGED <<dg_vars, c_vars, d_vars, e_vars, f_vars, bp_vars, ext_vars>>

\* The coroutine resumes with the DataGuard response: the early return when
\* it blocks, else module A is handed to the pool and awaited.
resume_after_module0(r) ==
    /\ pc[r] = "await_module0"
    /\ future[r] # None
    /\ LET m0_resp == future[r][1]
           tr      == [trace[r] EXCEPT !.module0 = Some(m0_resp)]
       IN  /\ trace' = [trace EXCEPT ![r] = tr]
           /\ IF m0_resp.block
              THEN /\ outcome' = [outcome EXCEPT ![r] =
                         Some([kind |-> "FullAnalysisResponse",
                               body |-> BlockedResponse(request[r][1], tr)])]
                   /\ pc' = [pc EXCEPT ![r] = "done"]
                   /\ UNCHANGED <<submitted, queue>>
              ELSE /\ Submit(r, <<"moduleA">>)
                   /\ pc' = [pc EXCEPT ![r] = "await_moduleA"]
                   /\ UNCHANGED outcome
    /\ future' = [future EXCEPT ![r] = None]
    /\ UNCHANGED <<request, running>>
    /\ UNCHANGED <<dg_vars, c_vars, d_vars, e_vars, f_vars, bp_vars, ext_vars>>

\* The coroutine resumes with the response of module A and reads
\* request.additional_signals to build the request of module B.  Reading an
\* attribute the request model does not declare raises AttributeError, which
\* nothing in evaluate catches; were the field declared, the three branch
\* stages would be handed to the pool and gathered.
resume_after_moduleA(r) ==
    /\ pc[r] = "await_moduleA"
    /\ future[r] # None
    /\ trace' = [trace EXCEPT ![r].moduleA = Some(future[r][1])]
    /\ IF "additional_signals" \in FullAnalysisRequestFields
       THEN /\ Submit(r, <<"moduleB", "moduleBplus", "moduleBpp">>)
            /\ pc' = [pc EXCEPT ![r] = "await_gather"]
            /\ UNCHANGED outcome
       ELSE /\ outcome' = [outcome EXCEPT ![r] =
                  Some([kind |-> "AttributeError",
                        body |-> [attribute |-> "additional_signals"]])]
            /\ pc' = [pc EXCEPT ![r] = "done"]
            /\ UNCHANGED <<submitted, queue>>
    /\ future' = [future EXCEPT ![r] = None]
    /\ UNCHANGED <<request, running>>
    /\ UNCHANGED <<dg_vars, c_vars, d_vars, e_vars, f_vars, bp_vars, ext_vars>>

\* ------------------------------------------------------------------------
\* Module C: Fusion (modules/moduleC_fusion.py, config.py)
\* ------------------------------------------------------------------------

\* The float literals 0.15, 0.25, ..., 1.01 of module C and config.py, each the
\* binary64 value of the literal (0.30 is 0x3FD3333333333333, ...).
F015 == [m |-> <<13107, 3276, 13107, 1228>>, e |-> -55]
F025 == [m |-> <<0, 0, 0, 1024>>, e |-> -54]
F030 == [m |-> <<13107, 3276, 13107, 1228>>, e |-> -54]
F035 == [m |-> <<9830, 6553, 9830, 1433>>, e |-> -54]
F040 == [m |-> <<6554, 9830, 6553, 1638>>, e |-> -54]
F055 == [m |-> <<6554, 9830, 6553, 1126>>, e |-> -53]
F060 == [m |-> <<13107, 3276, 13107, 1228>>, e |-> -53]
F065 == [m |-> <<3277, 13107, 3276, 1331>>, e |-> -53]
F070 == [m |-> <<9830, 6553, 9830, 1433>>, e |-> -53]
F080 == [m |-> <<6554, 9830, 6553, 1638>>, e |-> -53]
F085 == [m |-> <<13107, 3276, 13107, 1740>>, e |-> -53]
F090 == [m |-> <<3277, 13107, 3276, 1843>>, e |-> -53]
F099 == [m |-> <<1966, 11141, 8519, 2027>>, e |-> -53]
F101 == [m |-> <<7209, 2621, 3932, 1034>>, e |-> -52]

\* A variant that tests the accelerating trend before the initiator match.
block_score_TrendFirst(b_match, trend_class, confidence, process_corr) ==
    IF trend_class = "Accelerating" /\ confidence >= 70 THEN F085
    ELSE IF b_match >= 90 THEN F090
    ELSE IF trend_class = "Step" /\ confidence >= 70 THEN F080
    ELSE IF trend_class = "Drift" /\ confidence >= 60 THEN F065
    ELSE IF trend_class = "Chaotic" /\ process_corr >= 70 THEN F035
    ELSE IF b_match >= 70 /\ (trend_class = "Stable" \/ confidence < 50) THEN F055
    ELSE IF b_match < 30 /\ trend_class = "Stable" THEN F015
    ELSE F040

\* The scores of a BlockInput are held in hundredths; comparing them with
\* the literals 0.90, 0.70, ... in integers agrees with the comparison of
\* the floats.
block_score(b_match, trend_class, confidence, process_corr) ==
    IF b_match >= 90 THEN F090
    ELSE IF trend_class = "Accelerating" /\ confidence >= 70 THEN F085
    ELSE IF trend_class = "Step" /\ confidence >= 70 THEN F080
    ELSE IF trend_class = "Drift" /\ confidence >= 60 THEN F065
    ELSE IF trend_class = "Chaotic" /\ process_corr >= 70 THEN F035
    ELSE IF b_match >= 70 /\ (trend_class = "Stable" \/ confidence < 50) THEN F055
    ELSE IF b_match < 30 /\ trend_class = "Stable" THEN F015
    ELSE F040

\* SSI_THRESHOLDS of config.py: (low, high, state) with low <= ssi < high
SSI_THRESHOLDS ==
    <<[low |-> FZero, high |-> F030, state |-> "stable"],
      [low |-> F030, high |-> F060, state |-> "degrading"],
      [low |-> F060, high |-> F080, state |-> "unstable"],
      [low |-> F080, high |-> F101, state |-> "critical"]>>

RECURSIVE classify_from(_, _)
classify_from(ssi, i) ==
    IF i > Len(SSI_THRESHOLDS) THEN "critical"
    ELSE IF FLe(SSI_THRESHOLDS[i].low, ssi) /\ FLt(ssi, SSI_THRESHOLDS[i].high)
         THEN SSI_THRESHOLDS[i].state
         ELSE classify_from(ssi, i + 1)

classify_ssi(ssi) == classify_from(ssi, 1)

state_to_action(state) ==
    CASE state = "stable" -> "monitor"
      [] state = "degrading" -> "alert"
      [] state = "unstable" -> "intervene"
      [] state = "critical" -> "shutdown_or_trip"
      [] state = "process-driven" -> "investigate_process"

DEFAULT_PROFILE == [id |-> "PROFILE_DEFAULT", weights |-> <<>>]

\* load_profiles(): rules/profiles.yaml.  The profile of
\* pump_train_horizontal weighs six blocks; the weights given here are those
\* of the two of them that modelled requests supply (the other four,
\* foundation, ac_motor, coupling and shafts, share the remaining 0.45 and
\* are never looked up).
Profiles ==
    [pump_train_horizontal |->
        [id |-> "PROFILE_PUMP_A",
         weights |-> [afb |-> F025, fluid_flow |-> F030]]]

\* sum(values): 0 + v1 + v2 + ... from left to right
RECURSIVE FSum(_, _)
FSum(ws, acc) ==
    IF ws = <<>> THEN acc ELSE FSum(Tail(ws), FAdd(acc, Head(ws).w))

\* The second half of _load_and_normalize_weights: the weights of the blocks
\* present, divided by their sum when it lies strictly between 0 and 0.99.
RenormalizeBy(active_weights, weight_sum) ==
    IF FGt(weight_sum, FZero) /\ FLt(weight_sum, F099)
    THEN [i \in 1..Len(active_weights) |->
             [name |-> active_weights[i].name,
              w |-> FDiv(active_weights[i].w, weight_sum)]]
    ELSE active_weights

Renormalize(active_weights) ==
    RenormalizeBy(active_weights, FSum(active_weights, FZero))

\* profiles.get(system_type, DEFAULT_PROFILE)
ProfileOf(system_type) ==
    IF system_type \in DOMAIN Profiles THEN Profiles[system_type] ELSE DEFAULT_PROFILE

\* {k: 1.0 / n for k in blocks}
EqualWeights(blocks) ==
    [i \in 1..Len(blocks) |->
        [name |-> blocks[i].name, w |-> FDiv(FOne, FromInt(Len(blocks)))]]

\* {k: weights[k] for k in blocks if k in weights}
RECURSIVE ActiveWeights(_, _)
ActiveWeights(weights, blocks) ==
    IF blocks = <<>> THEN <<>>
    ELSE (IF Head(blocks).name \in DOMAIN weights
          THEN <<[name |-> Head(blocks).name, w |-> weights[Head(blocks).name]]>>
          ELSE <<>>) \o ActiveWeights(weights, Tail(blocks))

\* the weights of a profile for the blocks of a request
WeightsFor(weights, blocks) ==
    IF DOMAIN weights = {} /\ blocks # <<>>
    THEN Renormalize(EqualWeights(blocks))
    ELSE IF DOMAIN weights # {}
    THEN Renormalize(ActiveWeights(weights, blocks))
    ELSE <<>>

\* A dict is a sequence of entries in insertion order.  Returns the profile
\* id and the dict of weights, entries [name, w].
load_and_normalize_weights(system_type, blocks) ==
    [profile_id |-> ProfileOf(system_type).id,
     weights |-> WeightsFor(ProfileOf(system_type).weights, blocks)]

compute_block_scores(blocks) ==
    [i \in 1..Len(blocks) |->
        [name |-> blocks[i].name,
         score |-> block_score(blocks[i].input.B_match_score,
                               blocks[i].input.Bplus_trend_class,
                               blocks[i].input.Bplus_confidence,
                               blocks[i].input.process_correlation)]]

\* weights.get(name, 0.0)
WeightOf(weights, name) ==
    IF \E i \in 1..Len(weights) : weights[i].name = name
    THEN weights[CHOOSE i \in 1..Len(weights) : weights[i].name = name].w
    ELSE FZero

\* ssi = 0.0; for block_name, score in block_scores.items(): ssi += w * score
RECURSIVE WeightedSum(_, _, _)
WeightedSum(block_scores, weights, ssi) ==
    IF block_scores = <<>> THEN ssi
    ELSE WeightedSum(Tail(block_scores), weights,
             FAdd(ssi, FMul(WeightOf(weights, Head(block_scores).name),
                            Head(block_scores).score)))

aggregate_ssi(block_scores, weights) ==
    Clamp01(WeightedSum(block_scores, weights, FZero))

check_process_driven(blocks) ==
    2 * Cardinality({i \in 1..Len(blocks) : blocks[i].input.process_correlation >= 70})
        > Len(blocks)

\* a run() without the gating rule
Gate_Unforced(ssi, stability_state) == ssi

\* ssi = max(ssi, 0.70) when the stability state is Critical_Instability
Gate(ssi, stability_state) ==
    IF stability_state = Some("Critical_Instability") /\ FLt(ssi, F070)
    THEN F070 ELSE ssi

\* run(request) of module C; SSI is round(ssi, 4) in ten-thousandths.  The
\* except branch (SSI 0.0, stable) is taken only when the profile table is
\* malformed, which is a configuration error and not modelled.
ModuleCResponse(system_type, profile_id, ssi, system_state) ==
    [system_type |-> system_type, profile_id |-> profile_id,
     SSI |-> Round4(ssi), system_state |-> system_state,
     recommended_action |-> state_to_action(system_state)]

\* the system state, from the blocks and the gated ssi
system_state_of(blocks, ssi) ==
    IF check_process_driven(blocks) THEN "process-driven" ELSE classify_ssi(ssi)

\* the rest of run() once the gated ssi is known
run_gated(mC_req, profile_id, ssi) ==
    ModuleCResponse(mC_req.system_type, profile_id, ssi,
                    system_state_of(mC_req.blocks, ssi))

\* the rest of run() once the profile is loaded
run_loaded(mC_req, loaded) ==
    run_gated(mC_req, loaded.profile_id,
              Gate(aggregate_ssi(compute_block_scores(mC_req.blocks), loaded.weights),
                   mC_req.stability_state))

moduleC_run(mC_req) ==
    run_loaded(mC_req, load_and_normalize_weights(mC_req.system_type, mC_req.blocks))

\* ------------------------------------------------------------------------
\* POST /rapid-ai/moduleC (main.py, run_moduleC)
\* ------------------------------------------------------------------------

MaxBlocks == 3

BlockNames == {"afb", "fluid_flow", "block_a", "block_b"}

\* Three block inputs, in hundredths: a very strong initiator (block score
\* 0.90), an accelerating trend (0.85) and a process-correlated drift (0.65).
BlockInputs ==
    {[B_match_score |-> 95, Bplus_trend_class |-> "Stable",
      Bplus_confidence |-> 50, process_correlation |-> 0],
     [B_match_score |-> 10, Bplus_trend_class |-> "Accelerating",
      Bplus_confidence |-> 75, process_correlation |-> 0],
     [B_match_score |-> 10, Bplus_trend_class |-> "Drift",
      Bplus_confidence |-> 65, process_correlation |-> 80]}

BlockEntries == [name : BlockNames, input : BlockInputs]

\* The blocks mappings of at most MaxBlocks entries, in every insertion order.
BlockMappings ==
    UNION {{b \in [1..n -> BlockEntries] :
                \A i, j \in 1..n : i # j => b[i].name # b[j].name} :
           n \in 0..MaxBlocks}

ModuleCRequests ==
    [system_type : {"pump_train_horizontal", "unknown_machine"},
     blocks : BlockMappings,
     stability_state : {None, Some("Critical_Instability")}]

\* The endpoint keeps no state between calls; a behaviour follows one call
\* and, after it, one call with the same blocks inserted in another order.
run_moduleC ==
    /\ c_response = None
    /\ \E mC_req \in ModuleCRequests :
          /\ c_request' = Some(mC_req)
          /\ c_response' = Some(moduleC_run(mC_req))
    /\ UNCHANGED c_previous
    /\ UNCHANGED <<dg_vars, ev_vars, d_vars, e_vars, f_vars, bp_vars, ext_vars>>

\* The same request with its first block inserted last.
run_moduleC_reordered ==
    /\ c_response # None
    /\ c_previous = None
    /\ Len(c_request[1].blocks) >= 2
    /\ LET mC_req == [c_request[1] EXCEPT
                         !.blocks = Tail(@) \o <<Head(@)>>]
       IN  /\ c_request' = Some(mC_req)
           /\ c_response' = Some(moduleC_run(mC_req))
           /\ c_previous' = c_response
    /\ UNCHANGED <<dg_vars, ev_vars, d_vars, e_vars, f_vars, bp_vars, ext_vars>>

\* ------------------------------------------------------------------------
\* Module D, HealthStage (modules/moduleD_health.py)
\* ------------------------------------------------------------------------

F002 == [m |-> <<5243, 7864, 11796, 1310>>, e |-> -58]
F003 == [m |-> <<7864, 11796, 1310, 1966>>, e |-> -58]
F005 == [m |-> <<6554, 9830, 6553, 1638>>, e |-> -57]
F050 == [m |-> <<0, 0, 0, 1024>>, e |-> -53]
F500 == [m |-> <<0, 0, 0, 1280>>, e |-> -50]

\* SLOPE_THRESHOLDS of config.py
SLOPE_THRESHOLDS ==
    [step_jump |-> F050, chaotic_volatility |-> F030,
     chaotic_slope_max |-> F002, accel_slope |-> F005, accel_change |-> F002,
     drift_slope |-> F002, nli_multiplier |-> F500,
     escalation_unstable |-> F005, escalation_degrading |-> F002]

SSI_CRITICAL == SSI_THRESHOLDS[4].low
SSI_UNSTABLE == SSI_THRESHOLDS[3].low
SSI_DEGRADING == SSI_THRESHOLDS[2].low
SLOPE_ESCALATION_UNSTABLE == SLOPE_THRESHOLDS.escalation_unstable
SLOPE_ESCALATION_DEGRADING == SLOPE_THRESHOLDS.escalation_degrading

\* A float of either sign is its sign and its magnitude; x > t for t > 0.
SGt(x, t) == ~x.neg /\ FGt(x.mag, t)

\* the stage and RUL band the SSI alone gives
BaseStage(ssi) ==
    IF FGe(ssi, SSI_CRITICAL)
    THEN [stage |-> "Critical", rul_band |-> "< 7 days"]
    ELSE IF FGe(ssi, SSI_UNSTABLE)
    THEN [stage |-> "Unstable", rul_band |-> "1-4 weeks"]
    ELSE IF FGe(ssi, SSI_DEGRADING)
    THEN [stage |-> "Degrading", rul_band |-> "1-6 months"]
    ELSE [stage |-> "Healthy", rul_band |-> "> 6 months"]

\* A variant escalating already at the slope thresholds themselves.
SlopeEscalated_Inclusive(base, slope) ==
    IF base.stage = "Degrading" /\ ~slope.neg
          /\ FGe(slope.mag, SLOPE_ESCALATION_UNSTABLE)
    THEN [stage |-> "Unstable", rul_band |-> "1-4 weeks"]
    ELSE IF base.stage = "Healthy" /\ ~slope.neg
          /\ FGe(slope.mag, SLOPE_ESCALATION_DEGRADING)
    THEN [stage |-> "Degrading", rul_band |-> "1-6 months"]
    ELSE base

\* A variant that escalates a Healthy base stage by two levels.
SlopeEscalated_ByTwo(base, slope) ==
    IF base.stage = "Degrading" /\ SGt(slope, SLOPE_ESCALATION_UNSTABLE)
    THEN [stage |-> "Unstable", rul_band |-> "1-4 weeks"]
    ELSE IF base.stage = "Healthy" /\ SGt(slope, SLOPE_ESCALATION_DEGRADING)
    THEN [stage |-> "Unstable", rul_band |-> "1-4 weeks"]
    ELSE base

\* "Slope can escalate a borderline case"
SlopeEscalated(base, slope) ==
    IF base.stage = "Degrading" /\ SGt(slope, SLOPE_ESCALATION_UNSTABLE)
    THEN [stage |-> "Unstable", rul_band |-> "1-4 weeks"]
    ELSE IF base.stage = "Healthy" /\ SGt(slope, SLOPE_ESCALATION_DEGRADING)
    THEN [stage |-> "Degrading", rul_band |-> "1-6 months"]
    ELSE base

EscalationOf(stage, slope) ==
    IF stage = "Critical"
    THEN [escalation |-> "Level_3", action |-> "Immediate intervention required"]
    ELSE IF stage = "Unstable"
    THEN [escalation |-> "Level_2", action |-> "Prepare intervention"]
    ELSE IF stage = "Degrading" /\ SGt(slope, F003)
    THEN [escalation |-> "Level_1", action |-> "Schedule inspection"]
    ELSE IF stage = "Degrading"
    THEN [escalation |-> "Level_1", action |-> "Schedule inspection"]
    ELSE [escalation |-> "Level_0", action |-> "Continue monitoring"]

ModuleDResponse(staged, esc) ==
    [degradation_stage |-> staged.stage, rul_band |-> staged.rul_band,
     escalation_level |-> esc.escalation,
     recommended_action |-> esc.action]

run_staged(staged, slope) ==
    ModuleDResponse(staged, EscalationOf(staged.stage, slope))

\* run of moduleD_health.py; the comparisons of floats raise nothing, so the
\* except branch is not taken.
moduleD_run(mD_req) ==
    run_staged(SlopeEscalated(BaseStage(mD_req.SSI), mD_req.SSI_slope),
               mD_req.SSI_slope)

\* SSI values of the requests, in ten-thousandths, around the thresholds
SSITenThousandths ==
    {0, 2999, 3000, 3001, 4500, 5999, 6000, 7999, 8000, 8001, 10000}

\* the float just below 0.8: 0.7999999999999999
F080Pred == [m |-> <<6553, 9830, 6553, 1638>>, e |-> -53]

\* SSI slopes of the requests, in thousandths, around 0.02, 0.03 and 0.05
SlopeThousandths == {-10, 0, 20, 21, 30, 31, 50, 51, 100}

Signed(n, d) == [neg |-> n < 0, mag |-> Dec(IF n < 0 THEN 0 - n ELSE n, d)]

ModuleDRequests ==
    [SSI : {Dec(k, 10000) : k \in SSITenThousandths} \cup {F080Pred},
     SSI_slope : {Signed(k, 1000) : k \in SlopeThousandths}]

\* POST /rapid-ai/moduleD (main.py, run_moduleD)
run_moduleD ==
    /\ d_response = None
    /\ \E mD_req \in ModuleDRequests :
          /\ d_request' = Some(mD_req)
          /\ d_response' = Some(moduleD_run(mD_req))
    /\ UNCHANGED <<dg_vars, ev_vars, c_vars, e_vars, f_vars, bp_vars, ext_vars>>

\* the SSI slopes handed to HealthStage after Fusion, in thousandths
FedSlopeThousandths == {-10, 0, 20, 21}

\* HealthStage run on the SSI a Fusion response reports (evaluate of main.py:
\* ModuleDRequest(SSI=mC_resp.SSI, SSI_slope=...), moduleD.run). The reported
\* SSI is round(ssi, 4), the float nearest to its four decimals.
health_after_fusion ==
    /\ c_response # None
    /\ d_response = None
    /\ \E k \in FedSlopeThousandths :
          LET mD_req == [SSI |-> Dec(c_response[1].SSI, 10000),
                         SSI_slope |-> Signed(k, 1000)]
          IN  /\ d_request' = Some(mD_req)
              /\ d_response' = Some(moduleD_run(mD_req))
    /\ UNCHANGED <<dg_vars, ev_vars, c_vars, e_vars, f_vars, bp_vars, ext_vars>>

\* ------------------------------------------------------------------------
\* Module E, MaintenancePlan (modules/moduleE_maintenance.py)
\* ------------------------------------------------------------------------

W_SEVERITY == [m |-> <<3277, 13107, 3276, 1843>>, e |-> -54]
W_CONFIDENCE == [m |-> <<0, 0, 0, 1024>>, e |-> -54]
W_CRITICALITY == [m |-> <<6554, 9830, 6553, 1638>>, e |-> -55]
W_URGENCY == [m |-> <<6554, 9830, 6553, 1638>>, e |-> -56]
SAFETY_MULTIPLIER == [m |-> <<0, 0, 0, 1536>>, e |-> -52]
SPARES_PENALTY == [m |-> <<9830, 6553, 9830, 1433>>, e |-> -53]
MANPOWER_PENALTY == [m |-> <<9830, 6553, 9830, 1433>>, e |-> -53]
PRIORITY_IMMEDIATE == [m |-> <<0, 0, 0, 1360>>, e |-> -46]
PRIORITY_24H == [m |-> <<0, 0, 0, 1120>>, e |-> -46]
PRIORITY_7D == [m |-> <<0, 0, 0, 1600>>, e |-> -47]

\* 100.0
Hundred == [m |-> <<0, 0, 0, 1600>>, e |-> -46]

\* A str is the sequence of its characters.
UpperCase == <<"A", "B", "C", "D", "E", "F", "G", "H", "I", "J", "K", "L", "M",
              "N", "O", "P", "Q", "R", "S", "T", "U", "V", "W", "X", "Y", "Z">>
LowerCase == <<"a", "b", "c", "d", "e", "f", "g", "h", "i", "j", "k", "l", "m",
              "n", "o", "p", "q", "r", "s", "t", "u", "v", "w", "x", "y", "z">>

RECURSIVE IndexIn(_, _, _)
IndexIn(c, chars, i) ==
    IF i > Len(chars) THEN 0
    ELSE IF chars[i] = c THEN i
    ELSE IndexIn(c, chars, i + 1)

LowerChar(c, i) == IF i = 0 THEN c ELSE LowerCase[i]

\* str.lower()
Lower(s) == [i \in 1..Len(s) |-> LowerChar(s[i], IndexIn(s[i], UpperCase, 1))]

\* keyword in s
Contains(s, keyword) ==
    \E i \in 0..(Len(s) - Len(keyword)) :
        SubSeq(s, i + 1, i + Len(keyword)) = keyword

\* DIAGNOSIS_ACTION_MAP, in the order of its items()
DIAGNOSIS_ACTION_MAP ==
    <<[keyword |-> <<"i", "m", "b", "a", "l", "a", "n", "c">>,
       act_ids |-> <<"ACT004", "ACT001">>],
      [keyword |-> <<"u", "n", "b", "a", "l", "a", "n", "c">>,
       act_ids |-> <<"ACT004", "ACT001">>],
      [keyword |-> <<"m", "i", "s", "a", "l", "i", "g", "n">>,
       act_ids |-> <<"ACT003", "ACT001">>],
      [keyword |-> <<"b", "e", "a", "r", "i", "n", "g">>,
       act_ids |-> <<"ACT002", "ACT005">>],
      [keyword |-> <<"l", "u", "b", "r", "i", "c">>,
       act_ids |-> <<"ACT002">>],
      [keyword |-> <<"l", "o", "o", "s", "e">>,
       act_ids |-> <<"ACT006", "ACT001">>],
      [keyword |-> <<"f", "o", "u", "n", "d", "a", "t", "i", "o", "n">>,
       act_ids |-> <<"ACT006">>],
      [keyword |-> <<"p", "r", "o", "c", "e", "s", "s">>,
       act_ids |-> <<"ACT007">>],
      [keyword |-> <<"c", "r", "i", "t", "i", "c", "a", "l">>,
       act_ids |-> <<"ACT008">>],
      [keyword |-> <<"s", "h", "u", "t", "d", "o", "w", "n">>,
       act_ids |-> <<"ACT008">>],
      [keyword |-> <<"c", "a", "v", "i", "t", "a", "t">>,
       act_ids |-> <<"ACT007", "ACT001">>],
      [keyword |-> <<"r", "e", "s", "o", "n", "a", "n">>,
       act_ids |-> <<"ACT006", "ACT001">>]>>

\* the act_ids of the keywords found in diag_lower, from entry i on
RECURSIVE MatchedFrom(_, _)
MatchedFrom(diag_lower, i) ==
    IF i > Len(DIAGNOSIS_ACTION_MAP) THEN <<>>
    ELSE (IF Contains(diag_lower, DIAGNOSIS_ACTION_MAP[i].keyword)
          THEN DIAGNOSIS_ACTION_MAP[i].act_ids ELSE <<>>)
         \o MatchedFrom(diag_lower, i + 1)

\* A variant that keeps every selected action.
Unique_KeepAll(actions, seen) == actions

\* "Deduplicate while preserving order"
RECURSIVE Unique(_, _)
Unique(actions, seen) ==
    IF actions = <<>> THEN <<>>
    ELSE IF Head(actions) \in seen THEN Unique(Tail(actions), seen)
    ELSE <<Head(actions)>> \o Unique(Tail(actions), seen \cup {Head(actions)})

\* "Always add confirmation run if nothing specific"
OrConfirmation(actions) == IF actions = <<>> THEN <<"ACT001">> ELSE actions

\* "Always include shutdown recommendation at top"
WithShutdown(priority, matched) ==
    (IF FGe(priority, PRIORITY_IMMEDIATE) THEN <<"ACT008">> ELSE <<>>)
    \o matched

select_actions(diagnosis, priority) ==
    Unique(OrConfirmation(
               WithShutdown(priority,
                            IF diagnosis # None /\ diagnosis[1] # <<>>
                            THEN MatchedFrom(Lower(diagnosis[1]), 1)
                            ELSE <<>>)),
           {})

priority_window(p) ==
    IF FGe(p, PRIORITY_IMMEDIATE) THEN "Immediate"
    ELSE IF FGe(p, PRIORITY_24H) THEN "24 hours"
    ELSE IF FGe(p, PRIORITY_7D) THEN "7 days"
    ELSE "Next shutdown"

\* round(x, 2) as an integer number of hundredths
Round2(a) == IF a.m = <<>> THEN 0
             ELSE BToInt(ShrRNE(BMulSmall(a.m, 100), 0 - a.e))

\* max(0.0, min(100.0, P)) for P >= 0
Clamp100(P) == IF FGt(P, Hundred) THEN Hundred ELSE P

\* A variant without the urgency term.
WeightedBase_NoUrgency(S, C, K, U) ==
    FAdd(FAdd(FMul(W_SEVERITY, S), FMul(W_CONFIDENCE, C)),
         FMul(W_CRITICALITY, K))

\* base = W_SEVERITY * S + W_CONFIDENCE * C + W_CRITICALITY * K + W_URGENCY * U
WeightedBase(S, C, K, U) ==
    FAdd(FAdd(FAdd(FMul(W_SEVERITY, S), FMul(W_CONFIDENCE, C)),
              FMul(W_CRITICALITY, K)),
         FMul(W_URGENCY, U))

\* P = 100.0 * base * M_safe * R_sp * R_mp, clamped
PriorityOf(base, M_safe, R_sp, R_mp) ==
    Clamp100(FMul(FMul(FMul(FMul(Hundred, base), M_safe), R_sp), R_mp))

Priority(mE_req) ==
    PriorityOf(WeightedBase(mE_req.severity_score, mE_req.confidence,
                            mE_req.criticality, mE_req.urgency),
               IF mE_req.safety_flag THEN SAFETY_MULTIPLIER ELSE FOne,
               IF mE_req.spares_ready THEN FOne ELSE SPARES_PENALTY,
               IF mE_req.manpower_ready THEN FOne ELSE MANPOWER_PENALTY)

PlanItems(action_ids, score, window) ==
    [rank \in 1..Len(action_ids) |->
        [rank |-> rank, priority_score |-> score, window |-> window,
         action_id |-> action_ids[rank]]]

ModuleEResponse(plan_items) ==
    [plan_items |-> plan_items, total_actions |-> Len(plan_items)]

run_prioritized(mE_req, P) ==
    ModuleEResponse(PlanItems(select_actions(mE_req.diagnosis, P),
                              Round2(P), priority_window(P)))

\* run of moduleE_maintenance.py; P is kept beside the response, which
\* reports round(P, 2) only.
moduleE_run(mE_req) == run_prioritized(mE_req, Priority(mE_req))

\* the scores of the requests, in hundredths
SeverityHundredths == {0, 50, 70, 100}
ScoreHundredths == {0, 50, 100}
UrgencyHundredths == {0, 50, 85, 100}

Diagnoses ==
    {None, Some(<<>>),
     Some(<<"B", "e", "a", "r", "i", "n", "g", " ", "w", "e", "a", "r">>),
     Some(<<"I", "m", "b", "a", "l", "a", "n", "c", "e", "d", ",", " ", "l", "o", "o", "s", "e">>),
     Some(<<"C", "r", "i", "t", "i", "c", "a", "l">>),
     Some(<<"o", "k">>)}

ModuleERequests ==
    [severity_score : {Dec(k, 100) : k \in SeverityHundredths},
     confidence : {Dec(k, 100) : k \in ScoreHundredths},
     criticality : {Dec(k, 100) : k \in ScoreHundredths},
     urgency : {Dec(k, 100) : k \in UrgencyHundredths},
     safety_flag : BOOLEAN, spares_ready : BOOLEAN, manpower_ready : BOOLEAN,
     diagnosis : Diagnoses]

\* POST /rapid-ai/moduleE (main.py, run_moduleE)
run_moduleE ==
    /\ e_response = None
    /\ \E mE_req \in ModuleERequests :
          /\ e_request' = Some(mE_req)
          /\ e_response' = Some(moduleE_run(mE_req))
    /\ UNCHANGED <<dg_vars, ev_vars, c_vars, d_vars, f_vars, bp_vars, ext_vars>>

\* ------------------------------------------------------------------------
\* Module F, ReliabilityProjection (modules/moduleF_rul.py): the RUL model
\* ------------------------------------------------------------------------

\* a - b for floats a >= b >= 0
FSub(a, b) ==
    IF b.m = <<>> THEN a
    ELSE LET e == IF a.e < b.e THEN a.e ELSE b.e
         IN  RoundF(BNorm(BSub(BShl(a.m, a.e - e), BShl(b.m, b.e - e))), e)

\* Floats of either sign: the sign and the magnitude; zero is not negative.
SFloat(neg, mag) == [neg |-> neg /\ mag.m # <<>>, mag |-> mag]
SZero == [neg |-> FALSE, mag |-> FZero]

SCmp(x, y) ==
    IF x.neg /\ ~y.neg THEN -1
    ELSE IF ~x.neg /\ y.neg THEN 1
    ELSE IF x.neg THEN FCmp(y.mag, x.mag)
    ELSE FCmp(x.mag, y.mag)

SAdd(x, y) ==
    IF x.neg = y.neg THEN SFloat(x.neg, FAdd(x.mag, y.mag))
    ELSE IF FGe(x.mag, y.mag) THEN SFloat(x.neg, FSub(x.mag, y.mag))
    ELSE SFloat(y.neg, FSub(y.mag, x.mag))

SSub(x, y) == SAdd(x, SFloat(~y.neg, y.mag))
SMul(x, y) == SFloat(x.neg # y.neg, FMul(x.mag, y.mag))
SDiv(x, y) == SFloat(x.neg # y.neg, FDiv(x.mag, y.mag))

\* 1e-12 and 1e-9
F1em12 == [m |-> <<10769, 1207, 14744, 1125>>, e |-> -92]
F1em9 == [m |-> <<5781, 8347, 8382, 1099>>, e |-> -82]

RUL_MAX_DAYS == [neg |-> FALSE, mag |-> [m |-> <<0, 0, 0, 1825>>, e |-> -41]]
ACCEL_MODEL_THRESHOLD == [neg |-> FALSE, mag |-> [m |-> <<5243, 7864, 11796, 1310>>, e |-> -59]]
INSTABILITY_THRESHOLD == [neg |-> FALSE, mag |-> [m |-> <<13107, 3276, 13107, 1228>>, e |-> -53]]

\* math.log on the quotients threshold / current of the requests: the
\* values of the C library for these arguments
LogTable ==
    {[x |-> [m |-> <<5461, 5461, 5461, 1365>>, e |-> -51],
      ln |-> [neg |-> FALSE, mag |-> [m |-> <<10168, 7762, 12096, 2008>>, e |-> -53]]],
     [x |-> [m |-> <<8295, 13480, 15761, 1036>>, e |-> -52],
      ln |-> [neg |-> FALSE, mag |-> [m |-> <<8853, 1654, 11897, 1648>>, e |-> -59]]],
     [x |-> [m |-> <<0, 0, 0, 1024>>, e |-> -52],
      ln |-> [neg |-> FALSE, mag |-> FZero]],
     [x |-> [m |-> <<6554, 9830, 6553, 1638>>, e |-> -53],
      ln |-> [neg |-> TRUE, mag |-> [m |-> <<6688, 7786, 16252, 1827>>, e |-> -55]]],
     [x |-> [m |-> <<5461, 5461, 5461, 1365>>, e |-> -52],
      ln |-> [neg |-> FALSE, mag |-> [m |-> <<7057, 1235, 5665, 1178>>, e |-> -54]]],
     [x |-> [m |-> <<8295, 13480, 15761, 1036>>, e |-> -53],
      ln |-> [neg |-> TRUE, mag |-> [m |-> <<869, 719, 13174, 1393>>, e |-> -53]]],
     [x |-> [m |-> <<0, 0, 0, 1024>>, e |-> -53],
      ln |-> [neg |-> TRUE, mag |-> [m |-> <<14831, 15336, 9263, 1419>>, e |-> -53]]],
     [x |-> [m |-> <<6554, 9830, 6553, 1638>>, e |-> -54],
      ln |-> [neg |-> TRUE, mag |-> [m |-> <<8311, 899, 9231, 1876>>, e |-> -53]]],
     [x |-> [m |-> <<0, 5376, 2510, 1164>>, e |-> -6],
      ln |-> [neg |-> FALSE, mag |-> [m |-> <<4057, 12764, 6840, 1024>>, e |-> -47]]],
     [x |-> [m |-> <<0, 5376, 2510, 1164>>, e |-> -7],
      ln |-> [neg |-> FALSE, mag |-> [m |-> <<3554, 985, 7760, 2004>>, e |-> -48]]]}

Log(x) == (CHOOSE r \in LogTable : r.x = x).ln

safe_ln_ratio(threshold, current) ==
    IF SCmp(current, SFloat(FALSE, F1em12)) <= 0
          \/ SCmp(threshold, SFloat(FALSE, F1em12)) <= 0
    THEN SZero
    ELSE Log(FDiv(threshold.mag, current.mag))

\* "Accelerating model"
AcceleratingRul(ln_ratio, effective_slope) ==
    IF SCmp(effective_slope, SFloat(FALSE, F1em9)) > 0
    THEN SDiv(ln_ratio, effective_slope)
    ELSE RUL_MAX_DAYS

\* "Model selection"
ModelRul(ln_ratio, slope_log, slope_change) ==
    IF SCmp(slope_change, ACCEL_MODEL_THRESHOLD) >= 0
    THEN AcceleratingRul(ln_ratio, SAdd(slope_log, slope_change))
    ELSE SDiv(ln_ratio, slope_log)

\* "Instability adjustment"
InstabilityAdjusted(rul_days, nli) ==
    IF SCmp(nli, INSTABILITY_THRESHOLD) >= 0
    THEN SMul(rul_days, SSub(SFloat(FALSE, FOne), nli))
    ELSE rul_days

\* A variant that gives a slope below 1e-9 no remaining life.
SelectRul_FlatIsZero(mF_req, ln_ratio) ==
    IF SCmp(mF_req.current_value, mF_req.failure_threshold) >= 0 THEN SZero
    ELSE IF FLt(mF_req.slope_log.mag, F1em9) THEN SZero
    ELSE InstabilityAdjusted(
             ModelRul(ln_ratio, mF_req.slope_log, mF_req.slope_change),
             mF_req.instability_index_NLI)

\* "Select RUL model"
SelectRul(mF_req, ln_ratio) ==
    IF SCmp(mF_req.current_value, mF_req.failure_threshold) >= 0 THEN SZero
    ELSE IF FLt(mF_req.slope_log.mag, F1em9) THEN RUL_MAX_DAYS
    ELSE InstabilityAdjusted(
             ModelRul(ln_ratio, mF_req.slope_log, mF_req.slope_change),
             mF_req.instability_index_NLI)

\* max(0.0, min(RUL_MAX_DAYS, rul_days)), a float that is not negative
ClampRul(rul_days) ==
    IF rul_days.neg THEN FZero
    ELSE IF FGt(rul_days.mag, RUL_MAX_DAYS.mag) THEN RUL_MAX_DAYS.mag
    ELSE rul_days.mag

\* "Recommended window"; 7, 30 and 180 days
RulWindow(rul_days) ==
    IF FLt(rul_days, [m |-> <<0, 0, 0, 1792>>, e |-> -50]) THEN "Immediate"
    ELSE IF FLt(rul_days, [m |-> <<0, 0, 0, 1920>>, e |-> -48])
    THEN "Urgent (< 30 days)"
    ELSE IF FLt(rul_days, [m |-> <<0, 0, 0, 1440>>, e |-> -45]) THEN "Planned"
    ELSE "Monitor"

\* The RUL fields of ModuleFResponse; RUL_days is round(rul_days, 2) in
\* hundredths. The failure probability, the risk index and the Weibull
\* metrics are computed from the request beside them and do not enter the RUL.
ModuleFResponse(rul_days) ==
    [RUL_days |-> Round2(rul_days), recommended_window |-> RulWindow(rul_days)]

moduleF_run(mF_req) ==
    ModuleFResponse(
        ClampRul(SelectRul(mF_req,
                           safe_ln_ratio(mF_req.failure_threshold,
                                         mF_req.current_value))))

\* slope_log: -0.05, -0.0099999995, 0, 5e-10, -5e-10, 0.0001, 0.01, 0.05
SlopeLogs ==
    {[neg |-> TRUE, mag |-> [m |-> <<6554, 9830, 6553, 1638>>, e |-> -57]],
     [neg |-> TRUE, mag |-> [m |-> <<2195, 6656, 11795, 1310>>, e |-> -59]],
     SZero,
     [neg |-> FALSE, mag |-> [m |-> <<5781, 8347, 8382, 1099>>, e |-> -83]],
     [neg |-> TRUE, mag |-> [m |-> <<5781, 8347, 8382, 1099>>, e |-> -83]],
     [neg |-> FALSE, mag |-> [m |-> <<813, 11377, 11822, 1677>>, e |-> -66]],
     [neg |-> FALSE, mag |-> [m |-> <<5243, 7864, 11796, 1310>>, e |-> -59]],
     [neg |-> FALSE, mag |-> [m |-> <<6554, 9830, 6553, 1638>>, e |-> -57]]}

\* slope_change: -0.02, 0, 0.01, 0.06
SlopeChanges ==
    {[neg |-> TRUE, mag |-> [m |-> <<5243, 7864, 11796, 1310>>, e |-> -58]],
     SZero,
     [neg |-> FALSE, mag |-> [m |-> <<5243, 7864, 11796, 1310>>, e |-> -59]],
     [neg |-> FALSE, mag |-> [m |-> <<7864, 11796, 1310, 1966>>, e |-> -57]]}

\* instability_index_NLI: 0, 0.6, 1.0
NLIs ==
    {SZero,
     [neg |-> FALSE, mag |-> [m |-> <<13107, 3276, 13107, 1228>>, e |-> -53]],
     [neg |-> FALSE, mag |-> [m |-> <<0, 0, 0, 1024>>, e |-> -52]]}

\* current_value: 0, 1e-13, 3.0, 7.9, 8.0, 10.0
CurrentValues ==
    {SZero,
     [neg |-> FALSE, mag |-> [m |-> <<13954, 8485, 7206, 1801>>, e |-> -96]],
     [neg |-> FALSE, mag |-> [m |-> <<0, 0, 0, 1536>>, e |-> -51]],
     [neg |-> FALSE, mag |-> [m |-> <<6554, 9830, 6553, 2022>>, e |-> -50]],
     [neg |-> FALSE, mag |-> [m |-> <<0, 0, 0, 1024>>, e |-> -49]],
     [neg |-> FALSE, mag |-> [m |-> <<0, 0, 0, 1280>>, e |-> -49]]}

\* failure_threshold: 8.0, 4.0
FailureThresholds ==
    {[neg |-> FALSE, mag |-> [m |-> <<0, 0, 0, 1024>>, e |-> -49]],
     [neg |-> FALSE, mag |-> [m |-> <<0, 0, 0, 1024>>, e |-> -50]]}

ModuleFRequests ==
    [slope_log : SlopeLogs, slope_change : SlopeChanges,
     instability_index_NLI : NLIs, current_value : CurrentValues,
     failure_threshold : FailureThresholds]

\* POST /rapid-ai/moduleF (main.py, run_moduleF)
run_moduleF ==
    /\ f_response = None
    /\ \E mF_req \in ModuleFRequests :
          /\ f_request' = Some(mF_req)
          /\ f_response' = Some(moduleF_run(mF_req))
    /\ UNCHANGED <<dg_vars, ev_vars, c_vars, d_vars, e_vars, bp_vars, ext_vars>>

\* ------------------------------------------------------------------------
\* Module B+, SlopeIntelligence (modules/moduleBplus_slope.py)
\* ------------------------------------------------------------------------

STEP_JUMP_THRESHOLD == F050
CHAOTIC_VOLATILITY_THRESHOLD == F030
CHAOTIC_SLOPE_MAX == F002
ACCEL_SLOPE_THRESHOLD == F005
ACCEL_CHANGE_THRESHOLD == F002
DRIFT_SLOPE_THRESHOLD == F002
NLI_MULTIPLIER == F500

\* 10, 8 and 3, the factors of the severity scores
Ten == [m |-> <<0, 0, 0, 1280>>, e |-> -49]
Eight == [m |-> <<0, 0, 0, 1024>>, e |-> -49]
Three == [m |-> <<0, 0, 0, 1536>>, e |-> -51]

FMin(a, b) == IF FLt(b, a) THEN b ELSE a

\* round(x, 6) as an integer number of millionths
Round6(a) == IF a.m = <<>> THEN 0
             ELSE BToInt(ShrRNE(BMul(a.m, BFromInt(1000000)), 0 - a.e))

\* round(x, 6) of a float of either sign
SRound6(x) == IF x.neg THEN 0 - Round6(x.mag) ELSE Round6(x.mag)

\* The list request.values is modelled by its length n and by what numpy
\* takes from it: slope, slope1 and slope2 are the first coefficients of
\* np.polyfit over the whole window and over its two halves, std is np.std
\* of the residuals of the whole-window fit, max_jump is
\* np.max(np.abs(np.diff(log_vals))).

\* "Slope change (second derivative)"
slope_change_of(n, mid, slope1, slope2) ==
    IF n >= 4 /\ mid >= 2 /\ n - mid >= 2 THEN SSub(slope2, slope1) ELSE SZero

\* "Instability index (NLI proxy)"
volatility_of(n, std) == IF n >= 3 THEN std ELSE FZero

\* A variant that tests Accelerating before Step.
trend_class_AccelFirst(max_jump, volatility, abs_slope, abs_change) ==
    IF FGt(abs_slope, ACCEL_SLOPE_THRESHOLD)
          /\ FGt(abs_change, ACCEL_CHANGE_THRESHOLD)
    THEN "Accelerating"
    ELSE IF FGt(max_jump, STEP_JUMP_THRESHOLD) THEN "Step"
    ELSE IF FGt(volatility, CHAOTIC_VOLATILITY_THRESHOLD)
          /\ FLt(abs_slope, CHAOTIC_SLOPE_MAX)
    THEN "Chaotic"
    ELSE IF FGt(abs_slope, DRIFT_SLOPE_THRESHOLD) THEN "Drift"
    ELSE "Stable"

\* "Trend classification"
trend_class_of(max_jump, volatility, abs_slope, abs_change) ==
    IF FGt(max_jump, STEP_JUMP_THRESHOLD) THEN "Step"
    ELSE IF FGt(volatility, CHAOTIC_VOLATILITY_THRESHOLD)
          /\ FLt(abs_slope, CHAOTIC_SLOPE_MAX)
    THEN "Chaotic"
    ELSE IF FGt(abs_slope, ACCEL_SLOPE_THRESHOLD)
          /\ FGt(abs_change, ACCEL_CHANGE_THRESHOLD)
    THEN "Accelerating"
    ELSE IF FGt(abs_slope, DRIFT_SLOPE_THRESHOLD) THEN "Drift"
    ELSE "Stable"

\* "Severity score"
severity_of(trend_class, abs_slope, abs_change) ==
    IF trend_class = "Chaotic" THEN F030
    ELSE IF trend_class = "Step" THEN F080
    ELSE IF trend_class = "Accelerating"
    THEN FMin(FOne, FAdd(FMul(abs_slope, Ten), FMul(abs_change, F500)))
    ELSE IF trend_class = "Drift" THEN FMin(F070, FMul(abs_slope, Eight))
    ELSE FMul(abs_slope, Three)

ModuleBPlusResponse(slope, slope_change, instability, trend_class, severity) ==
    [slope |-> SRound6(slope), slope_change |-> SRound6(slope_change),
     instability_index |-> Round4(instability), trend_class |-> trend_class,
     severity_score |-> Round4(FMin(FOne, severity))]

\* the response for fewer than 2 points: the defaults of ModuleBPlusResponse
DefaultBPlusResponse ==
    [slope |-> 0, slope_change |-> 0, instability_index |-> 0,
     trend_class |-> "Stable", severity_score |-> 0]

run_classified(slope, slope_change, volatility, trend_class) ==
    ModuleBPlusResponse(slope, slope_change,
                        FMin(FOne, FMul(volatility, NLI_MULTIPLIER)),
                        trend_class,
                        severity_of(trend_class, slope.mag, slope_change.mag))

run_fitted(slope, slope_change, volatility, max_jump) ==
    run_classified(slope, slope_change, volatility,
                   trend_class_of(max_jump, volatility, slope.mag,
                                  slope_change.mag))

\* run of moduleBplus_slope.py; numpy raises nothing on finite values, so the
\* except branch is not taken.
moduleBplus_run(mBp_req) ==
    IF mBp_req.n < 2 THEN DefaultBPlusResponse
    ELSE run_fitted(mBp_req.slope,
                    slope_change_of(mBp_req.n, mBp_req.n \div 2,
                                    mBp_req.slope1, mBp_req.slope2),
                    volatility_of(mBp_req.n, mBp_req.std),
                    mBp_req.max_jump)

\* len(values)
SeriesLengths == {0, 1, 2, 3, 4, 20}

\* whole-window slopes: 0, (-)0.02, (-)0.03, 0.05, (-)0.06
Slopes ==
    {SZero,
     [neg |-> FALSE, mag |-> [m |-> <<5243, 7864, 11796, 1310>>, e |-> -58]],
     [neg |-> TRUE, mag |-> [m |-> <<5243, 7864, 11796, 1310>>, e |-> -58]],
     [neg |-> FALSE, mag |-> [m |-> <<7864, 11796, 1310, 1966>>, e |-> -58]],
     [neg |-> TRUE, mag |-> [m |-> <<7864, 11796, 1310, 1966>>, e |-> -58]],
     [neg |-> FALSE, mag |-> [m |-> <<6554, 9830, 6553, 1638>>, e |-> -57]],
     [neg |-> FALSE, mag |-> [m |-> <<7864, 11796, 1310, 1966>>, e |-> -57]],
     [neg |-> TRUE, mag |-> [m |-> <<7864, 11796, 1310, 1966>>, e |-> -57]]}

\* half-window slopes: 0 and 0.01, then 0, 0.03 and 0.04
FirstHalfSlopes ==
    {SZero,
     [neg |-> FALSE, mag |-> [m |-> <<5243, 7864, 11796, 1310>>, e |-> -59]]}

SecondHalfSlopes ==
    {SZero,
     [neg |-> FALSE, mag |-> [m |-> <<7864, 11796, 1310, 1966>>, e |-> -58]],
     [neg |-> FALSE, mag |-> [m |-> <<5243, 7864, 11796, 1310>>, e |-> -57]]}

\* residual deviations: 0, 0.3, 0.31
Deviations ==
    {FZero,
     [m |-> <<13107, 3276, 13107, 1228>>, e |-> -54],
     [m |-> <<9175, 13762, 12451, 1269>>, e |-> -54]}

\* largest jumps: 0, 0.06, 0.5, 0.51
Jumps ==
    {FZero,
     [m |-> <<7864, 11796, 1310, 1966>>, e |-> -57],
     [m |-> <<0, 0, 0, 1024>>, e |-> -53],
     [m |-> <<14418, 5242, 7864, 1044>>, e |-> -53]}

\* A fitted slope is a weighted mean of the consecutive differences, so none
\* exceeds the largest jump; a series without points has no jump.
ModuleBPlusRequests ==
    {q \in [n : SeriesLengths, slope : Slopes, slope1 : FirstHalfSlopes,
            slope2 : SecondHalfSlopes, std : Deviations, max_jump : Jumps] :
        /\ FGe(q.max_jump, q.slope.mag)
        /\ FGe(q.max_jump, q.slope1.mag)
        /\ FGe(q.max_jump, q.slope2.mag)}

\* POST /rapid-ai/moduleBplus (main.py, run_moduleBplus)
run_moduleBplus ==
    /\ bp_response = None
    /\ \E mBp_req \in ModuleBPlusRequests :
          /\ bp_request' = Some(mBp_req)
          /\ bp_response' = Some(moduleBplus_run(mBp_req))
    /\ UNCHANGED <<dg_vars, ev_vars, c_vars, d_vars, e_vars, f_vars, ext_vars>>

\* ------------------------------------------------------------------------
\* Module B++, StabilityLens (modules/moduleBpp_sedl.py)
\* ------------------------------------------------------------------------

F020 == [m |-> <<6554, 9830, 6553, 1638>>, e |-> -55]

W_SE == F050
W_TE == F030
W_DE == F020

\* x >= t, x < t and x <= t for a float x of either sign and t > 0
SGe(x, t) == ~x.neg /\ FGe(x.mag, t)
SLt(x, t) == ~SGe(x, t)
SLe(x, t) == ~SGt(x, t)

\* round(x, 4) of a float of either sign
SRound4(x) == IF x.neg THEN 0 - Round4(x.mag) ELSE Round4(x.mag)

\* The keys of request.metrics; an absent key holds None.
MetricKeys == {"SE", "TE", "DE", "dSE_dt"}

\* metrics.get(key, 0.0)
Get(metrics, key) == IF metrics[key] = None THEN SZero ELSE metrics[key][1]

\* bool(request.metrics): neither None nor the empty dict
Truthy(metrics) == metrics # None /\ \E key \in MetricKeys : metrics[1][key] # None

\* max(0.0, min(1.0, SI))
ClampSI(SI) == IF SI.neg THEN FZero
               ELSE IF FGt(SI.mag, FOne) THEN FOne ELSE SI.mag

\* A variant without the weights: 1 - (SE + TE + DE).
StabilityIndex_Unweighted(SE, TE, DE) ==
    ClampSI(SSub(SFloat(FALSE, FOne), SAdd(SAdd(SE, TE), DE)))

\* SI = 1.0 - (W_SE * SE + W_TE * TE + W_DE * DE), clamped
StabilityIndex(SE, TE, DE) ==
    ClampSI(SSub(SFloat(FALSE, FOne),
                 SAdd(SAdd(SMul(SFloat(FALSE, W_SE), SE),
                           SMul(SFloat(FALSE, W_TE), TE)),
                      SMul(SFloat(FALSE, W_DE), DE))))

\* The if / elif chain of the state rules: the rule that fires, or None.
state_rule(SE, TE, DE, dSE_dt, SI) ==
    IF FLe(SI, F040) THEN Some("SR05")
    ELSE IF SGe(SE, F065) /\ (SGe(TE, F060) \/ SGe(DE, F060)) THEN Some("SR04")
    ELSE IF SGe(dSE_dt, F002) /\ FLt(SI, F060) THEN Some("SR03")
    ELSE IF SGt(SE, F035) /\ SLt(SE, F065) /\ SLt(dSE_dt, F002) THEN Some("SR02")
    ELSE IF SLe(SE, F035) /\ SLt(TE, F050) /\ FGe(SI, F070) THEN Some("SR01")
    ELSE None

\* The state and the severity each rule assigns; without a rule the initial
\* StabilityState.Stable and SeverityLevel.normal remain.
RuleState(rule) ==
    IF rule = Some("SR05") THEN "Critical_Instability"
    ELSE IF rule = Some("SR04") THEN "Chaotic"
    ELSE IF rule = Some("SR03") THEN "Destabilizing"
    ELSE IF rule = Some("SR02") THEN "Drifting"
    ELSE "Stable"

RuleSeverity(rule) ==
    IF rule = Some("SR05") THEN "alarm"
    ELSE IF rule \in {Some("SR04"), Some("SR03")} THEN "warning"
    ELSE IF rule = Some("SR02") THEN "watch"
    ELSE "normal"

ModuleBPPResponse(SE, TE, DE, dSE_dt, SI, rule) ==
    [SE |-> SRound4(SE), TE |-> SRound4(TE), DE |-> SRound4(DE),
     dSE_dt |-> SRound4(dSE_dt), SI |-> Round4(SI),
     stability_state |-> RuleState(rule),
     severity_level |-> RuleSeverity(rule),
     triggered_rules |-> rule]

run_indexed(SE, TE, DE, dSE_dt, SI) ==
    ModuleBPPResponse(SE, TE, DE, dSE_dt, SI,
                      state_rule(SE, TE, DE, dSE_dt, SI))

run_measured(SE, TE, DE, dSE_dt) ==
    run_indexed(SE, TE, DE, dSE_dt, StabilityIndex(SE, TE, DE))

\* The raw spectra are modelled by the lengths of the H and V lists and by
\* what numpy makes of them: se_h and se_v are _spectral_entropy of H and V,
\* te_h is _time_entropy of H, de is _directional_entropy of the energies.
SpectralSE(spectra) ==
    IF spectra.v_len > 4 /\ (spectra.h_len <= 4 \/ FGt(spectra.se_v, spectra.se_h))
    THEN spectra.se_v
    ELSE IF spectra.h_len > 4 THEN spectra.se_h
    ELSE FZero

SpectralTE(spectra) == IF spectra.h_len > 10 THEN spectra.te_h ELSE FZero

\* run of moduleBpp_sedl.py; the arithmetic raises nothing on finite values,
\* so the except branch is not taken.
moduleBpp_run(mBpp_req) ==
    IF Truthy(mBpp_req.metrics)
    THEN run_measured(Get(mBpp_req.metrics[1], "SE"),
                      Get(mBpp_req.metrics[1], "TE"),
                      Get(mBpp_req.metrics[1], "DE"),
                      Get(mBpp_req.metrics[1], "dSE_dt"))
    ELSE IF mBpp_req.spectra # None
    THEN run_measured(SFloat(FALSE, SpectralSE(mBpp_req.spectra[1])),
                      SFloat(FALSE, SpectralTE(mBpp_req.spectra[1])),
                      SFloat(FALSE, mBpp_req.spectra[1].de), SZero)
    ELSE run_measured(SZero, SZero, SZero, SZero)

\* Values of the metrics around the thresholds of the rules, and None for an
\* absent key.
MetricSE ==
    {None,
     Some([neg |-> TRUE, mag |-> [m |-> <<0, 0, 0, 1024>>, e |-> -52]]),
     Some([neg |-> FALSE, mag |-> FZero]),
     Some([neg |-> FALSE, mag |-> [m |-> <<6554, 9830, 6553, 1638>>, e |-> -55]]),
     Some([neg |-> FALSE, mag |-> [m |-> <<9830, 6553, 9830, 1433>>, e |-> -54]]),
     Some([neg |-> FALSE, mag |-> [m |-> <<6554, 9830, 6553, 1638>>, e |-> -54]]),
     Some([neg |-> FALSE, mag |-> [m |-> <<3277, 13107, 3276, 1843>>, e |-> -54]]),
     Some([neg |-> FALSE, mag |-> [m |-> <<2621, 3932, 5898, 1167>>, e |-> -53]]),
     Some([neg |-> FALSE, mag |-> [m |-> <<3277, 13107, 3276, 1331>>, e |-> -53]]),
     Some([neg |-> FALSE, mag |-> [m |-> <<6554, 9830, 6553, 1638>>, e |-> -53]]),
     Some([neg |-> FALSE, mag |-> [m |-> <<655, 9175, 13762, 1699>>, e |-> -53]]),
     Some([neg |-> FALSE, mag |-> [m |-> <<0, 0, 0, 1024>>, e |-> -51]])}

MetricTE ==
    {None,
     Some([neg |-> FALSE, mag |-> [m |-> <<13107, 3276, 13107, 1228>>, e |-> -54]]),
     Some([neg |-> FALSE, mag |-> [m |-> <<2621, 3932, 5898, 1679>>, e |-> -54]]),
     Some([neg |-> FALSE, mag |-> [m |-> <<0, 0, 0, 1024>>, e |-> -53]]),
     Some([neg |-> FALSE, mag |-> [m |-> <<13107, 3276, 13107, 1228>>, e |-> -53]]),
     Some([neg |-> FALSE, mag |-> [m |-> <<9830, 6553, 9830, 1433>>, e |-> -53]]),
     Some([neg |-> FALSE, mag |-> [m |-> <<655, 9175, 13762, 1699>>, e |-> -53]])}

MetricDE ==
    {None,
     Some([neg |-> FALSE, mag |-> [m |-> <<6554, 9830, 6553, 1638>>, e |-> -56]]),
     Some([neg |-> FALSE, mag |-> [m |-> <<6554, 9830, 6553, 1638>>, e |-> -55]]),
     Some([neg |-> FALSE, mag |-> [m |-> <<9175, 13762, 12451, 1269>>, e |-> -54]]),
     Some([neg |-> FALSE, mag |-> [m |-> <<1311, 1966, 11141, 1351>>, e |-> -54]]),
     Some([neg |-> FALSE, mag |-> [m |-> <<13107, 3276, 13107, 1228>>, e |-> -53]])}

MetricRates ==
    {None,
     Some([neg |-> TRUE, mag |-> [m |-> <<5243, 7864, 11796, 1310>>, e |-> -59]]),
     Some([neg |-> FALSE, mag |-> FZero]),
     Some([neg |-> FALSE, mag |-> [m |-> <<10748, 3014, 9437, 1048>>, e |-> -62]]),
     Some([neg |-> FALSE, mag |-> [m |-> <<5243, 7864, 11796, 1310>>, e |-> -59]]),
     Some([neg |-> FALSE, mag |-> [m |-> <<5243, 7864, 11796, 1310>>, e |-> -58]]),
     Some([neg |-> FALSE, mag |-> [m |-> <<6554, 9830, 6553, 1638>>, e |-> -57]])}

MetricDicts ==
    {[SE |-> se, TE |-> te, DE |-> de, dSE_dt |-> rate] :
        se \in MetricSE, te \in MetricTE, de \in MetricDE, rate \in MetricRates}

\* len(H) and len(V), around the lengths 4 and 10 the code asks for
SpectrumLengths == {0, 4, 5, 10, 11}

\* Normalized entropies, in [0, 1]: 0, 0.3 and 0.7
Entropies ==
    {FZero,
     [m |-> <<13107, 3276, 13107, 1228>>, e |-> -54],
     [m |-> <<9830, 6553, 9830, 1433>>, e |-> -53]}

SpectraResults ==
    {[h_len |-> h, v_len |-> v, se_h |-> sh, se_v |-> sv, te_h |-> th, de |-> de] :
        h \in SpectrumLengths, v \in {0, 5}, sh \in Entropies,
        sv \in Entropies, th \in {F030, F070}, de \in Entropies}

ModuleBPPRequests ==
    {[metrics |-> Some(m), spectra |-> None] : m \in MetricDicts}
    \cup {[metrics |-> mm, spectra |-> Some(sp)] :
            mm \in {None, Some([key \in MetricKeys |-> None])},
            sp \in SpectraResults}
    \cup {[metrics |-> None, spectra |-> None]}

\* POST /rapid-ai/moduleBpp (main.py, run_moduleBpp)
run_moduleBpp ==
    /\ bpp_response = None
    /\ \E mBpp_req \in ModuleBPPRequests :
          /\ bpp_request' = Some(mBpp_req)
          /\ bpp_response' = Some(moduleBpp_run(mBpp_req))
    /\ UNCHANGED <<dg_vars, ev_vars, c_vars, d_vars, e_vars, f_vars, bp_vars,
                   b_vars, bs_vars, cl_vars>>

\* ------------------------------------------------------------------------
\* Module B, InitiatorRules (modules/moduleB_initiators.py)
\* ------------------------------------------------------------------------

\* The float literals of the rule table, by their value in hundredths.
Literal ==
    20 :> [m |-> <<6554, 9830, 6553, 1638>>, e |-> -55]
    @@ 30 :> [m |-> <<13107, 3276, 13107, 1228>>, e |-> -54]
    @@ 40 :> [m |-> <<6554, 9830, 6553, 1638>>, e |-> -54]
    @@ 50 :> [m |-> <<0, 0, 0, 1024>>, e |-> -53]
    @@ 60 :> [m |-> <<13107, 3276, 13107, 1228>>, e |-> -53]
    @@ 70 :> [m |-> <<9830, 6553, 9830, 1433>>, e |-> -53]
    @@ 80 :> [m |-> <<6554, 9830, 6553, 1638>>, e |-> -53]
    @@ 90 :> [m |-> <<3277, 13107, 3276, 1843>>, e |-> -53]
    @@ 95 :> [m |-> <<9830, 6553, 9830, 1945>>, e |-> -53]
    @@ 110 :> [m |-> <<6554, 9830, 6553, 1126>>, e |-> -52]
    @@ 120 :> [m |-> <<13107, 3276, 13107, 1228>>, e |-> -52]
    @@ 130 :> [m |-> <<3277, 13107, 3276, 1331>>, e |-> -52]
    @@ 140 :> [m |-> <<9830, 6553, 9830, 1433>>, e |-> -52]
    @@ 150 :> [m |-> <<0, 0, 0, 1536>>, e |-> -52]
    @@ 160 :> [m |-> <<6554, 9830, 6553, 1638>>, e |-> -52]
    @@ 200 :> [m |-> <<0, 0, 0, 1024>>, e |-> -51]
    @@ 250 :> [m |-> <<0, 0, 0, 1280>>, e |-> -51]
    @@ 300 :> [m |-> <<0, 0, 0, 1536>>, e |-> -51]
    @@ 350 :> [m |-> <<0, 0, 0, 1792>>, e |-> -51]
    @@ 400 :> [m |-> <<0, 0, 0, 1024>>, e |-> -50]
    @@ 450 :> [m |-> <<0, 0, 0, 1152>>, e |-> -50]
    @@ 500 :> [m |-> <<0, 0, 0, 1280>>, e |-> -50]
    @@ 600 :> [m |-> <<0, 0, 0, 1536>>, e |-> -50]
    @@ 700 :> [m |-> <<0, 0, 0, 1792>>, e |-> -50]
    @@ 5000 :> [m |-> <<0, 0, 0, 1600>>, e |-> -47]
    @@ 6000 :> [m |-> <<0, 0, 0, 1920>>, e |-> -47]
    @@ 6500 :> [m |-> <<0, 0, 0, 1040>>, e |-> -46]
    @@ 7000 :> [m |-> <<0, 0, 0, 1120>>, e |-> -46]
    @@ 7500 :> [m |-> <<0, 0, 0, 1200>>, e |-> -46]

\* RULES_DB, in the order of its items(): the component family, a str, and
\* its rules. A condition is (metric_expr, operator, threshold); thresholds
\* and base severities are written in hundredths and stand for Literal of
\* them. A rule without the key or_conditions has none. The dash of the
\* diagnosis of S05 is written "-".
RULES_DB ==
    <<<<<<"a", "f", "b">>,
     <<[rule_id |-> "AFB01", initiator |-> "Incorrect Preload - High",
       diagnosis |-> "Excessive bearing preload increasing axial stiffness",
       conditions |-> <<<<"A_H_ratio", ">=", 120>>,
                         <<"V_H_ratio", "<", 80>>>>,
       or_conditions |-> <<>>,
       severity_base |-> 60],
      [rule_id |-> "AFB02", initiator |-> "Wrong Clearance",
       diagnosis |-> "Incorrect internal clearance shifts stiffness and load zones",
       conditions |-> <<<<"H_V_ratio", ">=", 160>>>>,
       or_conditions |-> <<<<"H_V_ratio", "<", 60>>>>,
       severity_base |-> 50],
      [rule_id |-> "AFB03", initiator |-> "Lubrication Starvation",
       diagnosis |-> "Film collapse; metal-to-metal contact generating HF impacts",
       conditions |-> <<<<"H_V_ratio", ">=", 90>>,
                         <<"H_V_ratio", "<=", 110>>,
                         <<"kurtosis", ">=", 500>>>>,
       or_conditions |-> <<>>,
       severity_base |-> 80],
      [rule_id |-> "AFB04", initiator |-> "Wrong Lubricant Viscosity",
       diagnosis |-> "Viscosity mismatch altering damping and film thickness",
       conditions |-> <<<<"H_V_ratio", ">=", 90>>,
                         <<"H_V_ratio", "<=", 110>>,
                         <<"temperature", ">=", 5000>>>>,
       or_conditions |-> <<>>,
       severity_base |-> 50],
      [rule_id |-> "AFB05", initiator |-> "Contamination",
       diagnosis |-> "Particles interrupt film causing micro impacts",
       conditions |-> <<<<"kurtosis", ">=", 500>>,
                         <<"crest_factor", ">=", 200>>>>,
       or_conditions |-> <<>>,
       severity_base |-> 60],
      [rule_id |-> "AFB06", initiator |-> "Shaft Imbalance",
       diagnosis |-> "Centrifugal force produces radial unbalance load",
       conditions |-> <<<<"H_V_ratio", ">=", 120>>,
                         <<"H_V_ratio", "<=", 200>>,
                         <<"A_H_ratio", "<", 30>>>>,
       or_conditions |-> <<>>,
       severity_base |-> 50],
      [rule_id |-> "AFB07", initiator |-> "Coupling Misalignment",
       diagnosis |-> "Misalignment loads axial direction strongly",
       conditions |-> <<<<"A_H_ratio", ">=", 130>>,
                         <<"A", ">=", 50>>>>,
       or_conditions |-> <<>>,
       severity_base |-> 60],
      [rule_id |-> "AFB08", initiator |-> "Overloading",
       diagnosis |-> "High load causing higher radial force",
       conditions |-> <<<<"H_V_ratio", ">=", 110>>,
                         <<"temperature", ">=", 6500>>>>,
       or_conditions |-> <<>>,
       severity_base |-> 60],
      [rule_id |-> "AFB09", initiator |-> "Resonance",
       diagnosis |-> "Operating speed near natural frequency",
       conditions |-> <<<<"H", ">=", 300>>,
                         <<"H_V_ratio", ">=", 300>>>>,
       or_conditions |-> <<>>,
       severity_base |-> 80],
      [rule_id |-> "AFB10", initiator |-> "Soft Foot",
       diagnosis |-> "Uneven support changing vertical stiffness",
       conditions |-> <<<<"V_H_ratio", ">=", 140>>,
                         <<"A_V_ratio", "<", 30>>>>,
       or_conditions |-> <<>>,
       severity_base |-> 50],
      [rule_id |-> "AFB11", initiator |-> "Poor Surface Finish",
       diagnosis |-> "Rough raceway creates micro-impacts",
       conditions |-> <<<<"kurtosis", ">=", 500>>,
                         <<"crest_factor", ">=", 250>>>>,
       or_conditions |-> <<>>,
       severity_base |-> 50],
      [rule_id |-> "AFB12", initiator |-> "VFD Bearing Currents",
       diagnosis |-> "Shaft voltage discharge causing EDM pitting",
       conditions |-> <<<<"crest_factor", ">=", 300>>,
                         <<"kurtosis", ">=", 600>>>>,
       or_conditions |-> <<>>,
       severity_base |-> 70],
      [rule_id |-> "AFB13", initiator |-> "Incorrect Mounting",
       diagnosis |-> "Mounting distortion shifts load zones",
       conditions |-> <<<<"H_V_ratio", ">=", 150>>,
                         <<"A_H_ratio", "<", 50>>>>,
       or_conditions |-> <<>>,
       severity_base |-> 50],
      [rule_id |-> "AFB14", initiator |-> "Thermal Expansion Effects",
       diagnosis |-> "Axial thermal growth increases thrust load",
       conditions |-> <<<<"A_H_ratio", ">=", 110>>,
                         <<"temperature", ">=", 6000>>>>,
       or_conditions |-> <<>>,
       severity_base |-> 50],
      [rule_id |-> "AFB15", initiator |-> "False Brinelling",
       diagnosis |-> "Micro-pitting under static vibration",
       conditions |-> <<<<"H", "<", 20>>,
                         <<"V", "<", 20>>,
                         <<"kurtosis", ">=", 700>>>>,
       or_conditions |-> <<>>,
       severity_base |-> 40],
      [rule_id |-> "AFB16", initiator |-> "Early Micro-Slip",
       diagnosis |-> "Micro-slip increases friction and heat",
       conditions |-> <<<<"H_V_ratio", ">=", 90>>,
                         <<"H_V_ratio", "<=", 110>>,
                         <<"temperature", ">=", 5000>>>>,
       or_conditions |-> <<>>,
       severity_base |-> 40]>>>>,
    <<<<"j", "o", "u", "r", "n", "a", "l">>,
     <<[rule_id |-> "JB01", initiator |-> "Low Oil Film Thickness",
       diagnosis |-> "Reduced film thickness increases metal contact",
       conditions |-> <<<<"H_V_ratio", ">=", 130>>,
                         <<"temperature", ">=", 7000>>>>,
       or_conditions |-> <<>>,
       severity_base |-> 60],
      [rule_id |-> "JB02", initiator |-> "Oil Starvation",
       diagnosis |-> "Collapsed hydrodynamic wedge causing asperity contact",
       conditions |-> <<<<"H_V_ratio", ">=", 90>>,
                         <<"H_V_ratio", "<=", 110>>,
                         <<"kurtosis", ">=", 600>>>>,
       or_conditions |-> <<>>,
       severity_base |-> 90],
      [rule_id |-> "JB03", initiator |-> "Rotor Instability / Oil Whirl",
       diagnosis |-> "Oil wedge cross-coupled stiffness generating unstable orbit",
       conditions |-> <<<<"H_V_ratio", ">=", 90>>,
                         <<"H_V_ratio", "<=", 110>>>>,
       or_conditions |-> <<>>,
       severity_base |-> 70],
      [rule_id |-> "JB05", initiator |-> "Shaft Misalignment",
       diagnosis |-> "Misalignment forces axial loading on sleeve",
       conditions |-> <<<<"A_H_ratio", ">=", 120>>>>,
       or_conditions |-> <<>>,
       severity_base |-> 60],
      [rule_id |-> "JB06", initiator |-> "Excessive Clearance",
       diagnosis |-> "Excess clearance causes rotor movement and impacts",
       conditions |-> <<<<"H_V_ratio", ">=", 200>>>>,
       or_conditions |-> <<>>,
       severity_base |-> 60],
      [rule_id |-> "JB08", initiator |-> "Rotor Rubbing",
       diagnosis |-> "Shaft contacts bearing metal or thrust face",
       conditions |-> <<<<"A_H_ratio", ">=", 70>>,
                         <<"kurtosis", ">=", 700>>>>,
       or_conditions |-> <<>>,
       severity_base |-> 90],
      [rule_id |-> "JB12", initiator |-> "Heavy Rotor Load",
       diagnosis |-> "Increased load causing larger eccentricity",
       conditions |-> <<<<"H_V_ratio", ">=", 140>>>>,
       or_conditions |-> <<>>,
       severity_base |-> 50]>>>>,
    <<<<"t", "p", "j", "b">>,
     <<[rule_id |-> "TPJB01", initiator |-> "Pad Flutter",
       diagnosis |-> "Pad oscillation due to low preload or light load",
       conditions |-> <<<<"H_V_ratio", ">=", 90>>,
                         <<"H_V_ratio", "<=", 110>>>>,
       or_conditions |-> <<>>,
       severity_base |-> 60],
      [rule_id |-> "TPJB02", initiator |-> "Preload Loss",
       diagnosis |-> "Reduced pad preload allowing excessive shaft motion",
       conditions |-> <<<<"H_V_ratio", ">=", 130>>,
                         <<"A_H_ratio", "<", 30>>>>,
       or_conditions |-> <<>>,
       severity_base |-> 70],
      [rule_id |-> "TPJB03", initiator |-> "Pad Pivot Wear",
       diagnosis |-> "Pivot point degradation altering pad geometry",
       conditions |-> <<<<"kurtosis", ">=", 400>>,
                         <<"crest_factor", ">=", 250>>>>,
       or_conditions |-> <<>>,
       severity_base |-> 60],
      [rule_id |-> "TPJB04", initiator |-> "Oil Starvation",
       diagnosis |-> "Insufficient oil flow to pads causing film collapse",
       conditions |-> <<<<"temperature", ">=", 7500>>,
                         <<"H_V_ratio", ">=", 90>>,
                         <<"H_V_ratio", "<=", 110>>>>,
       or_conditions |-> <<>>,
       severity_base |-> 90],
      [rule_id |-> "TPJB05", initiator |-> "Babbitt Fatigue",
       diagnosis |-> "Babbitt overlay fatigue cracking under cyclic load",
       conditions |-> <<<<"kurtosis", ">=", 500>>,
                         <<"temperature", ">=", 6500>>>>,
       or_conditions |-> <<>>,
       severity_base |-> 80],
      [rule_id |-> "TPJB06", initiator |-> "Thermal Distortion",
       diagnosis |-> "Pad thermal bowing from uneven heat distribution",
       conditions |-> <<<<"temperature", ">=", 7000>>,
                         <<"A_H_ratio", ">=", 70>>,
                         <<"V", ">=", 150>>>>,
       or_conditions |-> <<>>,
       severity_base |-> 50],
      [rule_id |-> "TPJB07", initiator |-> "Shaft Misalignment",
       diagnosis |-> "Misalignment loading pads unevenly",
       conditions |-> <<<<"A_H_ratio", ">=", 120>>>>,
       or_conditions |-> <<>>,
       severity_base |-> 60],
      [rule_id |-> "TPJB08", initiator |-> "Excessive Clearance",
       diagnosis |-> "Large clearance ratio causing instability",
       conditions |-> <<<<"H_V_ratio", ">=", 200>>>>,
       or_conditions |-> <<>>,
       severity_base |-> 60],
      [rule_id |-> "TPJB09", initiator |-> "Oil Whip (Severe)",
       diagnosis |-> "Cross-coupled stiffness generating forward whirl above 2x threshold",
       conditions |-> <<<<"H_V_ratio", ">=", 90>>,
                         <<"H_V_ratio", "<=", 110>>,
                         <<"kurtosis", ">=", 600>>>>,
       or_conditions |-> <<>>,
       severity_base |-> 90],
      [rule_id |-> "TPJB10", initiator |-> "Contamination",
       diagnosis |-> "Particle contamination in oil scoring pad surface",
       conditions |-> <<<<"kurtosis", ">=", 500>>,
                         <<"crest_factor", ">=", 300>>>>,
       or_conditions |-> <<>>,
       severity_base |-> 60],
      [rule_id |-> "TPJB11", initiator |-> "Overload",
       diagnosis |-> "Bearing loaded beyond design capacity",
       conditions |-> <<<<"H_V_ratio", ">=", 140>>,
                         <<"temperature", ">=", 7000>>>>,
       or_conditions |-> <<>>,
       severity_base |-> 70],
      [rule_id |-> "TPJB12", initiator |-> "Rotor Rub",
       diagnosis |-> "Shaft contacting pad or guard during transient",
       conditions |-> <<<<"A_H_ratio", ">=", 70>>,
                         <<"kurtosis", ">=", 700>>>>,
       or_conditions |-> <<>>,
       severity_base |-> 90]>>>>,
    <<<<"c", "o", "u", "p", "l", "i", "n", "g">>,
     <<[rule_id |-> "COUP01", initiator |-> "Parallel Misalignment",
       diagnosis |-> "Radial offset between shafts",
       conditions |-> <<<<"H_V_ratio", ">=", 130>>,
                         <<"A_H_ratio", "<", 20>>>>,
       or_conditions |-> <<>>,
       severity_base |-> 60],
      [rule_id |-> "COUP02", initiator |-> "Angular Misalignment",
       diagnosis |-> "Angular offset at coupling face",
       conditions |-> <<<<"A_H_ratio", ">=", 130>>>>,
       or_conditions |-> <<>>,
       severity_base |-> 60],
      [rule_id |-> "COUP05", initiator |-> "Coupling Backlash / Wear",
       diagnosis |-> "Wear at coupling interface causing impacts",
       conditions |-> <<<<"A_H_ratio", ">=", 80>>,
                         <<"kurtosis", ">=", 400>>>>,
       or_conditions |-> <<>>,
       severity_base |-> 50]>>>>,
    <<<<"a", "c", "_", "m", "o", "t", "o", "r">>,
     <<[rule_id |-> "AC01", initiator |-> "Rotor Imbalance",
       diagnosis |-> "Unbalanced rotor mass",
       conditions |-> <<<<"H_V_ratio", ">=", 120>>,
                         <<"H_V_ratio", "<=", 250>>,
                         <<"A_H_ratio", "<", 30>>>>,
       or_conditions |-> <<>>,
       severity_base |-> 50],
      [rule_id |-> "AC03", initiator |-> "Air-Gap Eccentricity",
       diagnosis |-> "Non-uniform air gap causing electromagnetic force imbalance",
       conditions |-> <<<<"H_V_ratio", ">=", 200>>,
                         <<"A_H_ratio", "<", 20>>>>,
       or_conditions |-> <<>>,
       severity_base |-> 60],
      [rule_id |-> "AC04", initiator |-> "Soft Foot",
       diagnosis |-> "Uneven motor support",
       conditions |-> <<<<"V_H_ratio", ">=", 150>>,
                         <<"A_H_ratio", "<", 50>>>>,
       or_conditions |-> <<>>,
       severity_base |-> 50],
      [rule_id |-> "AC05", initiator |-> "Misalignment",
       diagnosis |-> "Coupling misalignment loading axial direction",
       conditions |-> <<<<"A_H_ratio", ">=", 130>>>>,
       or_conditions |-> <<>>,
       severity_base |-> 60],
      [rule_id |-> "AC07", initiator |-> "Motor Bearing Fault",
       diagnosis |-> "Bearing defect in motor",
       conditions |-> <<<<"H_V_ratio", ">=", 90>>,
                         <<"H_V_ratio", "<=", 110>>>>,
       or_conditions |-> <<>>,
       severity_base |-> 70]>>>>,
    <<<<"d", "c", "_", "m", "o", "t", "o", "r">>,
     <<[rule_id |-> "DC01", initiator |-> "Commutator Roughness",
       diagnosis |-> "Commutator surface wear causing brush bounce and arcing",
       conditions |-> <<<<"kurtosis", ">=", 400>>,
                         <<"crest_factor", ">=", 250>>>>,
       or_conditions |-> <<>>,
       severity_base |-> 50],
      [rule_id |-> "DC02", initiator |-> "Brush Wear",
       diagnosis |-> "Worn brushes causing intermittent contact and sparking",
       conditions |-> <<<<"kurtosis", ">=", 500>>,
                         <<"H_V_ratio", ">=", 90>>,
                         <<"H_V_ratio", "<=", 110>>>>,
       or_conditions |-> <<>>,
       severity_base |-> 60],
      [rule_id |-> "DC03", initiator |-> "Armature Imbalance",
       diagnosis |-> "Unbalanced armature producing radial vibration at 1x",
       conditions |-> <<<<"H_V_ratio", ">=", 120>>,
                         <<"A_H_ratio", "<", 30>>>>,
       or_conditions |-> <<>>,
       severity_base |-> 50],
      [rule_id |-> "DC04", initiator |-> "Field Winding Fault",
       diagnosis |-> "Asymmetric field causing electromagnetic unbalance",
       conditions |-> <<<<"H_V_ratio", ">=", 200>>>>,
       or_conditions |-> <<>>,
       severity_base |-> 70],
      [rule_id |-> "DC05", initiator |-> "Bearing Fault",
       diagnosis |-> "Motor bearing defect generating broadband vibration",
       conditions |-> <<<<"kurtosis", ">=", 600>>,
                         <<"crest_factor", ">=", 300>>>>,
       or_conditions |-> <<>>,
       severity_base |-> 70],
      [rule_id |-> "DC06", initiator |-> "Misalignment",
       diagnosis |-> "Shaft misalignment loading axial direction",
       conditions |-> <<<<"A_H_ratio", ">=", 130>>>>,
       or_conditions |-> <<>>,
       severity_base |-> 60],
      [rule_id |-> "DC07", initiator |-> "Commutator Eccentricity",
       diagnosis |-> "Out-of-round commutator causing periodic brush lift",
       conditions |-> <<<<"H_V_ratio", ">=", 150>>,
                         <<"kurtosis", ">=", 400>>>>,
       or_conditions |-> <<>>,
       severity_base |-> 60]>>>>,
    <<<<"f", "o", "u", "n", "d", "a", "t", "i", "o", "n">>,
     <<[rule_id |-> "FND01", initiator |-> "Soft Foot",
       diagnosis |-> "Uneven support surface",
       conditions |-> <<<<"V_H_ratio", ">=", 140>>>>,
       or_conditions |-> <<>>,
       severity_base |-> 50],
      [rule_id |-> "FND02", initiator |-> "Base Looseness",
       diagnosis |-> "Loose base causing impacts",
       conditions |-> <<<<"H_V_ratio", ">=", 160>>>>,
       or_conditions |-> <<>>,
       severity_base |-> 60],
      [rule_id |-> "FND03", initiator |-> "Structural Resonance",
       diagnosis |-> "Structure excited at natural frequency",
       conditions |-> <<<<"H_V_ratio", ">=", 300>>>>,
       or_conditions |-> <<>>,
       severity_base |-> 70]>>>>,
    <<<<"g", "e", "a", "r", "s">>,
     <<[rule_id |-> "GEAR01", initiator |-> "Uniform Tooth Wear",
       diagnosis |-> "General gear mesh wear",
       conditions |-> <<<<"H_V_ratio", ">=", 120>>,
                         <<"H", ">=", 200>>>>,
       or_conditions |-> <<>>,
       severity_base |-> 50],
      [rule_id |-> "GEAR02", initiator |-> "Localized Pitting",
       diagnosis |-> "Localized tooth surface pitting",
       conditions |-> <<<<"kurtosis", ">=", 400>>>>,
       or_conditions |-> <<>>,
       severity_base |-> 60],
      [rule_id |-> "GEAR04", initiator |-> "Gear Misalignment",
       diagnosis |-> "Axial misalignment in gearbox",
       conditions |-> <<<<"A_H_ratio", ">=", 120>>,
                         <<"H_V_ratio", ">=", 120>>>>,
       or_conditions |-> <<>>,
       severity_base |-> 60],
      [rule_id |-> "GEAR10", initiator |-> "Tooth Chipping / Breakage",
       diagnosis |-> "Early tooth breakage",
       conditions |-> <<<<"kurtosis", ">=", 500>>>>,
       or_conditions |-> <<>>,
       severity_base |-> 80]>>>>,
    <<<<"f", "l", "u", "i", "d", "_", "f", "l", "o", "w">>,
     <<[rule_id |-> "FL001", initiator |-> "Micro-bubble Formation",
       diagnosis |-> "Early cavitation at impeller eye",
       conditions |-> <<<<"H_V_ratio", ">=", 90>>,
                         <<"H_V_ratio", "<=", 120>>>>,
       or_conditions |-> <<>>,
       severity_base |-> 50],
      [rule_id |-> "FL002", initiator |-> "Continuous Cavitation",
       diagnosis |-> "Severe cavitation with bubble collapse",
       conditions |-> <<<<"H", ">=", 130>>,
                         <<"V", ">=", 130>>,
                         <<"crest_factor", ">=", 300>>>>,
       or_conditions |-> <<>>,
       severity_base |-> 80],
      [rule_id |-> "FL006", initiator |-> "Water Hammer",
       diagnosis |-> "Sudden pressure impact waves",
       conditions |-> <<<<"crest_factor", ">=", 450>>>>,
       or_conditions |-> <<>>,
       severity_base |-> 90]>>>>,
    <<<<"b", "e", "l", "t", "s">>,
     <<[rule_id |-> "B01", initiator |-> "Belt Tension Incorrect",
       diagnosis |-> "Improper belt tension causing slip or excessive load",
       conditions |-> <<<<"H_V_ratio", ">=", 130>>>>,
       or_conditions |-> <<>>,
       severity_base |-> 50],
      [rule_id |-> "B02", initiator |-> "Belt Wear / Cracking",
       diagnosis |-> "Belt surface degradation generating impulses at belt frequency",
       conditions |-> <<<<"kurtosis", ">=", 400>>,
                         <<"crest_factor", ">=", 200>>>>,
       or_conditions |-> <<>>,
       severity_base |-> 60],
      [rule_id |-> "B03", initiator |-> "Sheave Misalignment",
       diagnosis |-> "Pulley misalignment causing axial belt walk and wear",
       conditions |-> <<<<"A_H_ratio", ">=", 120>>>>,
       or_conditions |-> <<>>,
       severity_base |-> 50],
      [rule_id |-> "B04", initiator |-> "Sheave Wear",
       diagnosis |-> "Worn pulley groove altering belt contact geometry",
       conditions |-> <<<<"H_V_ratio", ">=", 140>>,
                         <<"kurtosis", ">=", 350>>>>,
       or_conditions |-> <<>>,
       severity_base |-> 50],
      [rule_id |-> "B05", initiator |-> "Belt Resonance",
       diagnosis |-> "Belt span natural frequency excited by running speed",
       conditions |-> <<<<"H", ">=", 200>>,
                         <<"H_V_ratio", ">=", 250>>>>,
       or_conditions |-> <<>>,
       severity_base |-> 70]>>>>,
    <<<<"c", "h", "a", "i", "n", "s">>,
     <<[rule_id |-> "C01", initiator |-> "Chain Wear / Elongation",
       diagnosis |-> "Link wear causing pitch elongation and meshing impacts",
       conditions |-> <<<<"kurtosis", ">=", 400>>>>,
       or_conditions |-> <<>>,
       severity_base |-> 50],
      [rule_id |-> "C02", initiator |-> "Chain Tension Incorrect",
       diagnosis |-> "Improper tension causing chain slap or excessive load",
       conditions |-> <<<<"H_V_ratio", ">=", 130>>,
                         <<"kurtosis", ">=", 350>>>>,
       or_conditions |-> <<>>,
       severity_base |-> 50],
      [rule_id |-> "C03", initiator |-> "Sprocket Wear",
       diagnosis |-> "Worn sprocket teeth causing irregular meshing",
       conditions |-> <<<<"kurtosis", ">=", 500>>,
                         <<"crest_factor", ">=", 250>>>>,
       or_conditions |-> <<>>,
       severity_base |-> 60],
      [rule_id |-> "C04", initiator |-> "Chain Misalignment",
       diagnosis |-> "Sprocket misalignment causing lateral chain loading",
       conditions |-> <<<<"A_H_ratio", ">=", 120>>>>,
       or_conditions |-> <<>>,
       severity_base |-> 50]>>>>,
    <<<<"s", "h", "a", "f", "t", "s">>,
     <<[rule_id |-> "S01", initiator |-> "Uneven Mass Distribution",
       diagnosis |-> "Shaft mass imbalance",
       conditions |-> <<<<"H_V_ratio", ">=", 120>>,
                         <<"A_H_ratio", "<", 30>>>>,
       or_conditions |-> <<>>,
       severity_base |-> 50],
      [rule_id |-> "S03", initiator |-> "Coupling Face Misalignment",
       diagnosis |-> "Coupling faces not parallel",
       conditions |-> <<<<"A_H_ratio", ">=", 130>>,
                         <<"A_V_ratio", ">=", 130>>>>,
       or_conditions |-> <<>>,
       severity_base |-> 60],
      [rule_id |-> "S05", initiator |-> "Shaft Crack",
       diagnosis |-> "Propagating transverse crack - catastrophic risk",
       conditions |-> <<<<"A_H_ratio", ">=", 80>>,
                         <<"kurtosis", ">=", 400>>>>,
       or_conditions |-> <<>>,
       severity_base |-> 95]>>>>>>

\* RULES_DB.get(component, [])
rules_of(component) ==
    IF \E i \in DOMAIN RULES_DB : RULES_DB[i][1] = component
    THEN RULES_DB[CHOOSE i \in DOMAIN RULES_DB : RULES_DB[i][1] = component][2]
    ELSE <<>>

\* 0.001, the value of an absent H, V or A
F0001 == [m |-> <<10748, 3014, 9437, 1048>>, e |-> -62]

FMax(a, b) == IF FGt(b, a) THEN b ELSE a

\* An absent key of a dict holds None.
\* m.get(key, default)
MetricOr(m, key, default) == IF m[key] = None THEN default ELSE m[key][1]

\* _compute_derived: the metrics with the five ratios added
compute_derived_of(m, H, V, A) ==
    [H |-> m.H, V |-> m.V, A |-> m.A, kurtosis |-> m.kurtosis,
     crest_factor |-> m.crest_factor, temperature |-> m.temperature,
     H_V_ratio |-> Some(FDiv(H, FMax(V, F1em9))),
     V_H_ratio |-> Some(FDiv(V, FMax(H, F1em9))),
     A_H_ratio |-> Some(FDiv(A, FMax(H, F1em9))),
     A_V_ratio |-> Some(FDiv(A, FMax(V, F1em9))),
     V_A_ratio |-> Some(FDiv(V, FMax(A, F1em9)))]

compute_derived(metrics) ==
    compute_derived_of(metrics, MetricOr(metrics, "H", F0001),
                       MetricOr(metrics, "V", F0001),
                       MetricOr(metrics, "A", F0001))

\* abs(value - threshold)
AbsDiff(a, b) == IF FGe(a, b) THEN FSub(a, b) ELSE FSub(b, a)

eval_condition(value, op, threshold) ==
    IF op = ">=" THEN FGe(value, threshold)
    ELSE IF op = "<=" THEN FLe(value, threshold)
    ELSE IF op = ">" THEN FGt(value, threshold)
    ELSE IF op = "<" THEN FLt(value, threshold)
    ELSE IF op = "==" THEN FLt(AbsDiff(value, threshold), F1em9)
    ELSE FALSE

\* derived.get(metric_key, 0.0) tested by the condition
Met(cond, derived) ==
    eval_condition(MetricOr(derived, cond[1], FZero), cond[2], Literal[cond[3]])

\* the entry a met condition appends to triggered
Triggered(cond, derived) ==
    [expr |-> cond[1], op |-> cond[2], threshold |-> cond[3],
     value |-> Round4(MetricOr(derived, cond[1], FZero))]

\* The loop over the AND conditions: the triggered entries when all are met,
\* None after the break.
RECURSIVE and_conditions(_, _, _, _)
and_conditions(conditions, derived, i, triggered) ==
    IF i > Len(conditions) THEN Some(triggered)
    ELSE IF Met(conditions[i], derived)
         THEN and_conditions(conditions, derived, i + 1,
                             Append(triggered, Triggered(conditions[i], derived)))
         ELSE None

\* The loop over the OR conditions: the entry of the first one met, or None.
RECURSIVE or_conditions(_, _, _)
or_conditions(conditions, derived, i) ==
    IF i > Len(conditions) THEN None
    ELSE IF Met(conditions[i], derived)
         THEN Some(<<Triggered(conditions[i], derived)>>)
         ELSE or_conditions(conditions, derived, i + 1)

\* triggered when all_met holds at the end of the two loops, else None
triggered_of(rule, derived, met) ==
    IF met # None THEN met
    ELSE or_conditions(rule.or_conditions, derived, 1)

MatchedRule(rule, triggered) ==
    [rule_id |-> rule.rule_id, initiator |-> rule.initiator,
     diagnosis |-> rule.diagnosis, score |-> Literal[rule.severity_base],
     triggered_conditions |-> triggered]

\* what the body of the loop over the rules appends to matched
matched_of(rule, triggered) ==
    IF triggered # None /\ triggered[1] # <<>>
    THEN <<MatchedRule(rule, triggered[1])>>
    ELSE <<>>

RECURSIVE match_rules(_, _, _)
match_rules(rules, derived, i) ==
    IF i > Len(rules) THEN <<>>
    ELSE matched_of(rules[i],
                    triggered_of(rules[i], derived,
                                 and_conditions(rules[i].conditions, derived, 1, <<>>)))
         \o match_rules(rules, derived, i + 1)

\* A variant adding the scores up.
RECURSIVE max_score_Sum(_, _, _)
max_score_Sum(matched, i, best) ==
    IF i > Len(matched) THEN best
    ELSE max_score_Sum(matched, i + 1, FAdd(best, matched[i].score))

\* max((m.score for m in matched), default=0.0)
RECURSIVE max_score(_, _, _)
max_score(matched, i, best) ==
    IF i > Len(matched) THEN best
    ELSE max_score(matched, i + 1,
                   IF i = 1 \/ FGt(matched[i].score, best)
                   THEN matched[i].score ELSE best)

ModuleBResponse(component, matched) ==
    [component |-> component, num_matches |-> Len(matched),
     matched_rules |-> matched,
     confidence |-> Round4(max_score(matched, 1, FZero))]

\* run of moduleB_initiators.py; the divisors are at least 1e-9 and the
\* lookups have defaults, so the except branch is not taken.
moduleB_run(mB_req) ==
    ModuleBResponse(Lower(mB_req.component),
                    match_rules(rules_of(Lower(mB_req.component)),
                                compute_derived(mB_req.metrics), 1))

\* The component families of RULES_DB, one of them in capitals, and two
\* names RULES_DB does not hold.
Components ==
    {RULES_DB[i][1] : i \in DOMAIN RULES_DB}
    \cup {<<"A", "F", "B">>, <<"u", "n", "k", "n", "o", "w", "n">>, <<>>}

\* Amplitudes (0.1, 1.0, 2.0, 3.0), kurtosis (7.0), crest factor (3.0, 6.0)
\* and temperature (90.0) on either side of the thresholds of the rules, and
\* None for an absent key.
Amplitudes_H ==
    {None,
     Some([m |-> <<6554, 9830, 6553, 1638>>, e |-> -56]),
     Some([m |-> <<0, 0, 0, 1024>>, e |-> -52]),
     Some([m |-> <<0, 0, 0, 1536>>, e |-> -51])}

Amplitudes_V ==
    {None,
     Some([m |-> <<6554, 9830, 6553, 1638>>, e |-> -56]),
     Some([m |-> <<0, 0, 0, 1024>>, e |-> -52]),
     Some([m |-> <<0, 0, 0, 1024>>, e |-> -51])}

Amplitudes_A ==
    {None,
     Some([m |-> <<6554, 9830, 6553, 1638>>, e |-> -56]),
     Some([m |-> <<0, 0, 0, 1024>>, e |-> -51])}

Kurtoses ==
    {None,
     Some([m |-> <<0, 0, 0, 1792>>, e |-> -50])}

CrestFactors ==
    {Some([m |-> <<0, 0, 0, 1536>>, e |-> -51]),
     Some([m |-> <<0, 0, 0, 1536>>, e |-> -50])}

Temperatures ==
    {None,
     Some([m |-> <<0, 0, 0, 1440>>, e |-> -46])}

ModuleBRequests ==
    [component : Components,
     metrics : [H : Amplitudes_H, V : Amplitudes_V, A : Amplitudes_A,
                kurtosis : Kurtoses, crest_factor : CrestFactors,
                temperature : Temperatures]]

\* POST /rapid-ai/moduleB (main.py, run_moduleB)
run_moduleB ==
    /\ b_response = None
    /\ \E mB_req \in ModuleBRequests :
          /\ b_request' = Some(mB_req)
          /\ b_response' = Some(moduleB_run(mB_req))
    /\ UNCHANGED <<dg_vars, ev_vars, c_vars, d_vars, e_vars, f_vars, bp_vars,
                   bpp_vars, bs_vars, cl_vars>>

\* ------------------------------------------------------------------------
\* Specifications
\* ------------------------------------------------------------------------

\* No call has been made.
InitCalls ==
    /\ dg_request = None
    /\ dg_response = None
    /\ request = [r \in Requests |-> None]
    /\ pc = [r \in Requests |-> "idle"]
    /\ trace = [r \in Requests |-> EmptyTrace]
    /\ outcome = [r \in Requests |-> None]
    /\ submitted = [r \in Requests |-> <<>>]
    /\ future = [r \in Requests |-> None]
    /\ queue = <<>>
    /\ running = {}
    /\ c_request = None
    /\ c_response = None
    /\ c_previous = None
    /\ d_request = None
    /\ d_response = None
    /\ e_request = None
    /\ e_response = None
    /\ f_request = None
    /\ f_response = None
    /\ bp_request = None
    /\ bp_response = None
    /\ bpp_request = None
    /\ bpp_response = None
    /\ b_request = None
    /\ b_response = None

Init ==
    /\ InitCalls
    /\ bs_input = None
    /\ bs_score = None
    /\ cl_input = None
    /\ cl_level = None

\* ------------------------------------------------------------------------
\* _block_score of module C as a function of its arguments
\* ------------------------------------------------------------------------

\* class TrendClass of schemas.py
TrendClasses == {"Stable", "Drift", "Accelerating", "Step", "Chaotic"}

\* Scores in hundredths on either side of 0.30, 0.50, 0.60, 0.70 and 0.90
MatchScores == {0, 29, 30, 69, 70, 89, 90, 100}
Confidences == {0, 49, 50, 59, 60, 69, 70, 100}
Correlations == {0, 69, 70, 100}

\* the fields of a BlockInput, the arguments of _block_score
BlockScoreInputs ==
    [B_match_score : MatchScores, Bplus_trend_class : TrendClasses,
     Bplus_confidence : Confidences, process_correlation : Correlations]

InitBlockScore ==
    /\ InitCalls
    /\ bs_input \in {Some(block_input) : block_input \in BlockScoreInputs}
    /\ bs_score = None
    /\ cl_input = None
    /\ cl_level = None

\* _compute_block_scores calls _block_score on the fields of a block input
apply_block_score ==
    /\ bs_input # None
    /\ bs_score = None
    /\ bs_score' = Some(block_score(bs_input[1].B_match_score,
                                    bs_input[1].Bplus_trend_class,
                                    bs_input[1].Bplus_confidence,
                                    bs_input[1].process_correlation))
    /\ UNCHANGED <<bs_input, cl_vars, dg_vars, ev_vars, c_vars, d_vars,
                   e_vars, f_vars, bp_vars, bpp_vars, b_vars>>

\* SEVERITY_THRESHOLDS of config.py: (low, high, level) with
\* low <= score < high
SEVERITY_THRESHOLDS ==
    <<[low |-> FZero, high |-> F030, level |-> "normal"],
      [low |-> F030, high |-> F050, level |-> "watch"],
      [low |-> F050, high |-> F080, level |-> "warning"],
      [low |-> F080, high |-> F101, level |-> "alarm"]>>

\* low <= x < high for a float x of either sign
InBucket(low, x, high) ==
    /\ SCmp(SFloat(FALSE, low), x) <= 0
    /\ SCmp(x, SFloat(FALSE, high)) < 0

\* classify_severity(score): the first bucket holding the score, or alarm
RECURSIVE classify_severity_from(_, _)
classify_severity_from(score, i) ==
    IF i > Len(SEVERITY_THRESHOLDS) THEN "alarm"
    ELSE IF InBucket(SEVERITY_THRESHOLDS[i].low, score,
                     SEVERITY_THRESHOLDS[i].high)
         THEN SEVERITY_THRESHOLDS[i].level
         ELSE classify_severity_from(score, i + 1)

classify_severity(score) == classify_severity_from(score, 1)

\* classify_ssi(ssi) for a float of either sign: the first bucket holding
\* the value, or critical
RECURSIVE classify_ssi_from(_, _)
classify_ssi_from(ssi, i) ==
    IF i > Len(SSI_THRESHOLDS) THEN "critical"
    ELSE IF InBucket(SSI_THRESHOLDS[i].low, ssi, SSI_THRESHOLDS[i].high)
         THEN SSI_THRESHOLDS[i].state
         ELSE classify_ssi_from(ssi, i + 1)

classify_ssi_signed(ssi) == classify_ssi_from(ssi, 1)

\* the scores classified, in hundredths: below 0, around each boundary,
\* above 1 and above 1.01
ClassifyHundredths ==
    {-100, -50, -30, -10, -1, 0, 1, 10, 20, 29, 30, 31, 40, 49, 50, 51, 55,
     59, 60, 61, 70, 79, 80, 81, 90, 99, 100, 101, 102, 110, 150, 200}

ClassifyScores ==
    {Signed(k, 100) : k \in ClassifyHundredths} \cup {SFloat(FALSE, F080Pred)}

ClassifyInputs ==
    [function : {"classify_severity", "classify_ssi"}, score : ClassifyScores]

Classified(function, score) ==
    IF function = "classify_severity" THEN classify_severity(score)
    ELSE classify_ssi_signed(score)

InitClassify ==
    /\ InitCalls
    /\ bs_input = None
    /\ bs_score = None
    /\ cl_input \in {Some(x) : x \in ClassifyInputs}
    /\ cl_level = None

\* a call of classify_severity or classify_ssi
apply_classify ==
    /\ cl_input # None
    /\ cl_level = None
    /\ cl_level' = Some(Classified(cl_input[1].function, cl_input[1].score))
    /\ UNCHANGED <<cl_input, bs_vars, dg_vars, ev_vars, c_vars, d_vars,
                   e_vars, f_vars, bp_vars, bpp_vars, b_vars>>

Next ==
    \/ \E r \in Requests : evaluate(r)
    \/ worker_start
    \/ worker_finish
    \/ \E r \in Requests : resume_after_module0(r)
    \/ \E r \in Requests : resume_after_moduleA(r)

Spec == Init /\ [][Next]_vars

NextDataGuard == run_module0

SpecDataGuard == Init /\ [][NextDataGuard]_vars

NextFusion == run_moduleC \/ run_moduleC_reordered

SpecFusion == Init /\ [][NextFusion]_vars

NextHealth == run_moduleD

SpecHealth == Init /\ [][NextHealth]_vars

NextFusionHealth == run_moduleC \/ health_after_fusion

SpecFusionHealth == Init /\ [][NextFusionHealth]_vars

NextPlan == run_moduleE

SpecPlan == Init /\ [][NextPlan]_vars

NextReliability == run_moduleF

SpecReliability == Init /\ [][NextReliability]_vars

NextSlope == run_moduleBplus

SpecSlope == Init /\ [][NextSlope]_vars

NextStability == run_moduleBpp

SpecStability == Init /\ [][NextStability]_vars

NextInitiators == run_moduleB

SpecInitiators == Init /\ [][NextInitiators]_vars

NextBlockScore == apply_block_score

SpecBlockScore == InitBlockScore /\ [][NextBlockScore]_vars

NextClassify == apply_classify

SpecClassify == InitClassify /\ [][NextClassify]_vars

\* ------------------------------------------------------------------------
\* Properties of DataGuard (checked under SpecDataGuard)
\* ------------------------------------------------------------------------

DgDone == dg_response # None
DgReq == dg_request[1]
DgResp == dg_response[1]

\* The penalty factor a rule stands for, as the fraction Num / Den.
FactorNum(code) ==
    CASE code = "DG_003" -> 3 [] code = "DG_004" -> 1 [] code = "DG_006" -> 7
      [] code = "DG_007" -> 2 [] code = "DG_009" -> 9 [] code = "DG_010" -> 3
      [] code = "DG_013" -> 17 [] code = "DG_016" -> 4

FactorDen(code) ==
    CASE code = "DG_003" -> 5 [] code = "DG_004" -> 2 [] code = "DG_006" -> 10
      [] code = "DG_007" -> 5 [] code = "DG_009" -> 10 [] code = "DG_010" -> 5
      [] code = "DG_013" -> 20 [] code = "DG_016" -> 5

RECURSIVE NumProduct(_)
NumProduct(codes) ==
    IF codes = <<>> THEN 1 ELSE FactorNum(Head(codes)) * NumProduct(Tail(codes))

RECURSIVE DenProduct(_)
DenProduct(codes) ==
    IF codes = <<>> THEN 1 ELSE FactorDen(Head(codes)) * DenProduct(Tail(codes))

\* The exact product of the factors of the fired rules, in units of 1e-7
\* (every denominator divides 10^7).
ExactProduct7(codes) == NumProduct(codes) * (10000000 \div DenProduct(codes))

RemoveAt(seq, i) == SubSeq(seq, 1, i - 1) \o SubSeq(seq, i + 1, Len(seq))

Reverse(seq) == [i \in 1..Len(seq) |-> seq[Len(seq) + 1 - i]]

\* The score DataGuard computes when exactly the rules in codes fire.
ScoreOf(codes) == Round4(Clamp01(QualityProduct(codes, FOne)))

\* C1: DataGuard returns block = true exactly when asset_id is empty,
\* timestamp_utc is empty, the signal has fewer than 256 samples, or the unit
\* is not allowed for the signal type; soft penalties never block.
C1_BlockIffHardCondition ==
    DgDone =>
        (DgResp.block <=>
            \/ DgReq.asset_id = ""
            \/ DgReq.timestamp_utc = ""
            \/ DgReq.signal.values.len < 256
            \/ DgReq.signal.unit \notin ALLOWED_UNITS[DgReq.signal.signal_type])

\* all eight soft penalties fire and the request is not blocked
C1_Witness ==
    DgDone /\ ~DgResp.block /\ Len(DgResp.reasons) = 8

\* every float literal of DataGuard is the binary64 value nearest to the
\* decimal written in the source
DataGuardLiteralsNearest ==
    /\ PENALTY_NAN = Dec(6, 10) /\ PENALTY_CLIP = Dec(5, 10)
    /\ PENALTY_FS = Dec(7, 10) /\ PENALTY_FLATLINE = Dec(4, 10)
    /\ PENALTY_OUTLIER = Dec(9, 10) /\ PENALTY_SPIKE = Dec(6, 10)
    /\ PENALTY_RPM = Dec(85, 100) /\ PENALTY_MAGNET = Dec(8, 10)
    /\ PASS_THRESHOLD = Dec(8, 10) /\ WARN_THRESHOLD = Dec(5, 10)

\* C7 as stated: the quality score of a non-blocked request is exactly the
\* product of the factors of the rules that fired.
C7_ExactProduct ==
    (DgDone /\ ~DgResp.block) =>
        DgResp.quality_score * 1000 = ExactProduct7(DgResp.reasons)

\* C7 amended: the quality score of a non-blocked request is the product of
\* the factors of the rules that fired rounded to four decimals (within
\* 0.00005 of the exact product, the same when the factors are multiplied in
\* the opposite order); it lies in [0, 1], equals 1.0 exactly when no rule
\* fired, and does not rise when one more rule fires.
C7_RoundedProduct ==
    /\ DataGuardLiteralsNearest
    /\ (DgDone /\ ~DgResp.block) =>
          LET q == DgResp.quality_score
              fired == DgResp.reasons
              d == q * 1000 - ExactProduct7(fired)
          IN  /\ d <= 500 /\ d >= -500
              /\ q = ScoreOf(Reverse(fired))
              /\ 0 <= q /\ q <= 10000
              /\ (q = 10000 <=> fired = <<>>)
              /\ \A i \in 1..Len(fired) : q <= ScoreOf(RemoveAt(fired, i))

\* a non-blocked response whose exact product has more than four decimals
C7_Witness ==
    DgDone /\ ~DgResp.block
    /\ DgResp.reasons = <<"DG_004", "DG_006", "DG_009", "DG_013">>
    /\ DgResp.quality_score = 2677

\* C8: status is block exactly when block is true, and then quality score and
\* confidence modifier are 0; otherwise status is pass iff quality >= 0.8,
\* warn iff 0.5 <= quality < 0.8, fail iff quality < 0.5.  One penalty of
\* 0.9, 0.85 or 0.8 alone still passes; any two penalties do not.
C8_StatusThresholds ==
    DgDone =>
        LET q == DgResp.quality_score
            fired == DgResp.reasons
        IN  /\ DgResp.status = "block" <=> DgResp.block
            /\ DgResp.block => q = 0 /\ DgResp.confidence_modifier = 0
            /\ ~DgResp.block =>
                  /\ DgResp.status = "pass" <=> q >= 8000
                  /\ DgResp.status = "warn" <=> (5000 <= q /\ q < 8000)
                  /\ DgResp.status = "fail" <=> q < 5000
                  /\ (Len(fired) = 1 /\ fired[1] \in {"DG_009", "DG_013", "DG_016"})
                        => DgResp.status = "pass"
                  /\ Len(fired) >= 2 => DgResp.status # "pass"

\* the two mildest penalties together: 0.9 * 0.85 = 0.765, a warn
C8_Witness ==
    DgDone /\ ~DgResp.block
    /\ DgResp.reasons = <<"DG_009", "DG_013">>
    /\ DgResp.status = "warn"

\* ------------------------------------------------------------------------
\* Properties of evaluate (checked under Spec)
\* ------------------------------------------------------------------------

Received(r) == request[r] # None
Req(r) == request[r][1]
Done(r) == pc[r] = "done"

IsRejected(r) ==
    /\ outcome[r] # None
    /\ outcome[r][1].kind = "HTTPException"
    /\ outcome[r][1].body.status_code = 400

IsResponse(r) ==
    /\ outcome[r] # None
    /\ outcome[r][1].kind = "FullAnalysisResponse"

IsBlockedOutcome(r) ==
    IsResponse(r) /\ outcome[r][1].body.health_stage = "Blocked"

\* DataGuard has returned block = true for call r.
DataGuardBlocked(r) ==
    \/ pc[r] = "await_module0" /\ future[r] # None /\ future[r][1].block
    \/ trace[r].module0 # None /\ trace[r].module0[1].block

\* The request of call r passes the input validation.
PassesValidation(r) ==
    /\ Req(r).failure_threshold > 0
    /\ Req(r).signal.values.len > 0
    /\ Req(r).criticality >= 0
    /\ Req(r).criticality <= 100

StageNames ==
    <<"module0", "moduleA", "moduleB", "moduleBplus", "moduleBpp", "moduleC",
      "moduleD", "moduleE", "moduleF">>

HasStarted(r, stage) == \E i \in 1..Len(submitted[r]) : submitted[r][i] = stage

\* C2: when DataGuard returns block = true in evaluate, no stage A .. F is
\* ever started for the call, and the response has health_stage Blocked,
\* severity score 0 with level normal, confidence 0 and a trace whose only
\* entry is the DataGuard response.
C2_BlockedShortCircuit ==
    \A r \in Requests :
        DataGuardBlocked(r) =>
            /\ submitted[r] = <<"module0">>
            /\ \A i \in 1..Len(queue) : queue[i].req # r
            /\ \A t \in running : t.req # r
            /\ pc[r] \in {"await_module0", "done"}
            /\ Done(r) =>
                  /\ IsResponse(r)
                  /\ outcome[r][1].body.health_stage = "Blocked"
                  /\ outcome[r][1].body.final_severity_score = 0
                  /\ outcome[r][1].body.final_severity_level = "normal"
                  /\ outcome[r][1].body.confidence = 0
                  /\ trace[r].module0 # None
                  /\ outcome[r][1].body.module_trace =
                        [EmptyTrace EXCEPT !.module0 = trace[r].module0]

\* a call has ended with the early return while another call is under way
C2_Witness ==
    \E r, o \in Requests :
        /\ DataGuardBlocked(r) /\ Done(r) /\ IsBlockedOutcome(r)
        /\ pc[o] = "await_moduleA"

\* C3: a request with failure_threshold <= 0, an empty signal or a
\* criticality outside [0, 1] is rejected with status 400 and no stage, not
\* even DataGuard, is started for it; an empty signal never ends as Blocked;
\* a non-empty signal of fewer than 256 samples (in an otherwise valid
\* request) is never rejected and ends as Blocked.
C3_ValidationRejects ==
    \A r \in Requests :
        Received(r) =>
            /\ ~PassesValidation(r) =>
                  /\ Done(r) /\ IsRejected(r)
                  /\ submitted[r] = <<>>
                  /\ trace[r] = EmptyTrace
            /\ Req(r).signal.values.len = 0 => ~IsBlockedOutcome(r)
            /\ (PassesValidation(r) /\ Req(r).signal.values.len < 256) =>
                  /\ ~IsRejected(r)
                  /\ Done(r) => IsBlockedOutcome(r)

\* an empty signal that DataGuard would also block for its missing asset id
\* is rejected, and a signal of 255 samples has ended as Blocked
C3_Witness ==
    \E r, o \in Requests :
        /\ Received(r) /\ Req(r).signal.values.len = 0 /\ Req(r).asset_id = ""
        /\ Req(r).failure_threshold > 0 /\ Req(r).criticality = 60
        /\ IsRejected(r)
        /\ Received(o) /\ Req(o).signal.values.len = 255 /\ Done(o)
        /\ IsBlockedOutcome(o)

\* C4: a call that passes validation and is not blocked ends with a normal
\* response whose trace holds one response of each of the nine stages;
\* rejection and the Blocked early return are the only other outcomes.
C4_NormalResponseWithFullTrace ==
    \A r \in Requests :
        Done(r) =>
            \/ IsRejected(r)
            \/ IsBlockedOutcome(r) /\ DataGuardBlocked(r)
            \/ /\ IsResponse(r)
               /\ \A i \in 1..Len(StageNames) : trace[r][StageNames[i]] # None
               /\ outcome[r][1].body.module_trace = trace[r]

C6_ValidatedCallAnswered ==
    \A r \in Requests :
        /\ (Received(r) /\ PassesValidation(r) /\ Done(r)) => IsResponse(r)
        /\ pc[r] \in {"await_module0", "await_moduleA"} =>
              \/ future[r] # None
              \/ \E t \in running : t.req = r
              \/ \E i \in 1..Len(queue) : queue[i].req = r

\* ------------------------------------------------------------------------
\* Properties of Fusion (checked under SpecFusion)
\* ------------------------------------------------------------------------

CDone == c_response # None
CReq == c_request[1]
CResp == c_response[1]

IsCritical(mC_req) == mC_req.stability_state = Some("Critical_Instability")

\* the weighted sum of the block scores before the gating rule
Unforced(mC_req) ==
    aggregate_ssi(compute_block_scores(mC_req.blocks),
                  load_and_normalize_weights(mC_req.system_type, mC_req.blocks).weights)

\* every float literal of module C is the binary64 value nearest to the
\* decimal written in the source
FusionLiteralsNearest ==
    /\ F015 = Dec(15, 100) /\ F025 = Dec(25, 100) /\ F030 = Dec(30, 100)
    /\ F035 = Dec(35, 100) /\ F040 = Dec(40, 100) /\ F055 = Dec(55, 100)
    /\ F060 = Dec(60, 100) /\ F065 = Dec(65, 100) /\ F070 = Dec(70, 100)
    /\ F080 = Dec(80, 100) /\ F085 = Dec(85, 100) /\ F090 = Dec(90, 100)
    /\ F099 = Dec(99, 100) /\ F101 = Dec(101, 100) /\ FOne = FromInt(1)

\* max(ssi, 0.70)
Forced(ssi) == IF FLt(ssi, F070) THEN F070 ELSE ssi

\* more than half of the blocks have a process correlation of at least 0.70
MajorityProcessCorrelated(blocks) ==
    \E n \in 0..Len(blocks) :
        /\ n = Cardinality({i \in 1..Len(blocks) :
                               blocks[i].input.process_correlation >= 70})
        /\ n + n > Len(blocks)

\* C9 as stated: under Critical_Instability the SSI is at least 0.70 and the
\* system state is the class of the forced value; otherwise the SSI is the
\* unforced weighted value (to four decimals).
C9_StateFromForcedValue ==
    CDone =>
        /\ IsCritical(CReq) =>
              /\ CResp.SSI >= 7000
              /\ CResp.system_state = classify_ssi(Forced(Unforced(CReq)))
        /\ ~IsCritical(CReq) => CResp.SSI = Round4(Unforced(CReq))

\* C9, amended: under Critical_Instability the SSI is at least 0.70, being
\* the larger of 0.70 and the unforced value, and the system state is the
\* class of that forced value unless more than half of the blocks are
\* process-correlated, in which case it is process-driven; otherwise the
\* SSI is the unforced weighted value and the state follows the same rule
\* from it.
C9_ForcedUnlessProcessDriven ==
    /\ FusionLiteralsNearest
    /\ CDone =>
          LET unforced == Unforced(CReq)
              rounded  == Round4(unforced)
              majority == MajorityProcessCorrelated(CReq.blocks)
          IN  IF IsCritical(CReq)
              THEN /\ CResp.SSI >= 7000
                   /\ CResp.SSI = IF rounded < 7000 THEN 7000 ELSE rounded
                   /\ IF majority
                      THEN CResp.system_state = "process-driven"
                      ELSE /\ CResp.system_state = classify_ssi(Forced(unforced))
                           /\ CResp.system_state \in {"unstable", "critical"}
              ELSE /\ CResp.SSI = rounded
                   /\ IF majority
                      THEN CResp.system_state = "process-driven"
                      ELSE CResp.system_state = classify_ssi(unforced)

\* a Critical_Instability request under the pump profile whose block_a has
\* no weight in the profile and whose unforced value 0.65 is raised to 0.70
C9_Witness ==
    /\ CDone /\ IsCritical(CReq)
    /\ CReq.system_type = "pump_train_horizontal"
    /\ \E i \in 1..Len(CReq.blocks) : CReq.blocks[i].name = "block_a"
    /\ ~MajorityProcessCorrelated(CReq.blocks)
    /\ Round4(Unforced(CReq)) = 6500
    /\ CResp.SSI = 7000
    /\ CResp.system_state = "unstable"

\* C10: two requests that differ only in the insertion order of the blocks
\* get the same SSI and the same system state.
C10_OrderIndependent ==
    c_previous # None =>
        /\ CResp.SSI = c_previous[1].SSI
        /\ CResp.system_state = c_previous[1].system_state

\* the class of an SSI as the response reports it, in ten-thousandths
ClassOfReported(reported) ==
    IF reported < 3000 THEN "stable"
    ELSE IF reported < 6000 THEN "degrading"
    ELSE IF reported < 8000 THEN "unstable"
    ELSE "critical"

\* C11: the system state is process-driven exactly when more than half of
\* the blocks have a process correlation of at least 0.70; otherwise it is
\* stable, degrading, unstable or critical by the thresholds 0.30, 0.60 and
\* 0.80 on the SSI the response reports.
C11_StateFromReportedSSI ==
    CDone =>
        /\ CResp.system_state = "process-driven"
              <=> MajorityProcessCorrelated(CReq.blocks)
        /\ ~MajorityProcessCorrelated(CReq.blocks)
              => CResp.system_state = ClassOfReported(CResp.SSI)

\* ------------------------------------------------------------------------
\* Properties of HealthStage (checked under SpecHealth)
\* ------------------------------------------------------------------------

DDone == d_response # None
DReq == d_request[1]
DResp == d_response[1]

\* x compared with the decimal n / d as a float literal: the sign of
\* x - float(n / d) for a float x >= 0.
CmpDecimal(x, n, d) == FCmp(x, Dec(n, d))

\* a float of either sign is greater than the decimal n / d > 0
AboveDecimal(s, n, d) == ~s.neg /\ CmpDecimal(s.mag, n, d) > 0

HealthLiteralsNearest ==
    /\ F002 = Dec(2, 100)
    /\ F003 = Dec(3, 100)
    /\ F005 = Dec(5, 100)
    /\ F050 = Dec(5, 10)
    /\ F500 = Dec(5, 1)
    /\ FLt(F080Pred, F080)
    /\ F080Pred.e = F080.e
    /\ BToInt(<<F080.m[1]>>) = BToInt(<<F080Pred.m[1]>>) + 1
    /\ Tail(F080.m) = Tail(F080Pred.m)

\* the stage of an SSI by the thresholds 0.30, 0.60 and 0.80
StageOfSSI(ssi) ==
    IF CmpDecimal(ssi, 30, 100) < 0 THEN "Healthy"
    ELSE IF CmpDecimal(ssi, 60, 100) < 0 THEN "Degrading"
    ELSE IF CmpDecimal(ssi, 80, 100) < 0 THEN "Unstable"
    ELSE "Critical"

StageRank(stage) ==
    CASE stage = "Healthy" -> 0
      [] stage = "Degrading" -> 1
      [] stage = "Unstable" -> 2
      [] stage = "Critical" -> 3

RulBandOf(stage) ==
    CASE stage = "Healthy" -> "> 6 months"
      [] stage = "Degrading" -> "1-6 months"
      [] stage = "Unstable" -> "1-4 weeks"
      [] stage = "Critical" -> "< 7 days"

LevelOf(stage) ==
    CASE stage = "Healthy" -> "Level_0"
      [] stage = "Degrading" -> "Level_1"
      [] stage = "Unstable" -> "Level_2"
      [] stage = "Critical" -> "Level_3"

ReturnedStage(base, slope) ==
    IF base = "Degrading" /\ AboveDecimal(slope, 5, 100) THEN "Unstable"
    ELSE IF base = "Healthy" /\ AboveDecimal(slope, 2, 100) THEN "Degrading"
    ELSE base

StageAsClaimed(resp, base, returned) ==
    /\ resp.degradation_stage = returned
    /\ base \in {"Unstable", "Critical"} => resp.degradation_stage = base
    /\ StageRank(resp.degradation_stage) - StageRank(base) \in {0, 1}
    /\ resp.rul_band = RulBandOf(resp.degradation_stage)
    /\ resp.escalation_level = LevelOf(resp.degradation_stage)

\* C12: the base stage is Healthy below 0.30, Degrading from 0.30, Unstable
\* from 0.60 and Critical from 0.80; the returned stage is the base stage,
\* except that Degrading with a slope above 0.05 is returned as Unstable and
\* Healthy with a slope above 0.02 as Degrading (a slope of exactly 0.05 or
\* 0.02 escalates nothing); Unstable and Critical are never changed, the
\* returned stage is at most one level above the base, and the RUL band and
\* the escalation level are those of the returned stage.
C12_StageWithSlopeEscalation ==
    /\ HealthLiteralsNearest
    /\ DDone =>
          StageAsClaimed(DResp, StageOfSSI(DReq.SSI),
                         ReturnedStage(StageOfSSI(DReq.SSI), DReq.SSI_slope))

\* a Degrading SSI with a slope above 0.05 has been returned as Unstable
C12_Witness ==
    /\ DDone
    /\ StageOfSSI(DReq.SSI) = "Degrading"
    /\ AboveDecimal(DReq.SSI_slope, 5, 100)
    /\ DResp.degradation_stage = "Unstable"
    /\ DResp.escalation_level = "Level_2"
    /\ DResp.rul_band = "1-4 weeks"

\* ------------------------------------------------------------------------
\* Fusion and HealthStage together (checked under SpecFusionHealth)
\* ------------------------------------------------------------------------

StageOfState(state) ==
    CASE state = "stable" -> "Healthy"
      [] state = "degrading" -> "Degrading"
      [] state = "unstable" -> "Unstable"
      [] state = "critical" -> "Critical"

\* C13: for a Fusion response whose state is not process-driven, HealthStage
\* run on the reported SSI with a slope of at most 0.02 returns the stage
\* corresponding to the state: stable - Healthy, degrading - Degrading,
\* unstable - Unstable, critical - Critical.
C13_StageMatchesState ==
    (CDone /\ DDone /\ CResp.system_state # "process-driven"
        /\ ~AboveDecimal(DReq.SSI_slope, 2, 100))
    => DResp.degradation_stage = StageOfState(CResp.system_state)

\* The same, for the responses whose state is the class of the SSI they
\* report.
C13_StageMatchesClassOfReported ==
    (CDone /\ DDone /\ CResp.system_state # "process-driven"
        /\ CResp.system_state = ClassOfReported(CResp.SSI)
        /\ ~AboveDecimal(DReq.SSI_slope, 2, 100))
    => DResp.degradation_stage = StageOfState(CResp.system_state)

\* ------------------------------------------------------------------------
\* Properties of MaintenancePlan (checked under SpecPlan)
\* ------------------------------------------------------------------------

EDone == e_response # None
EReq == e_request[1]
EResp == e_response[1]

PlanLiteralsNearest ==
    /\ W_SEVERITY = Dec(45, 100)
    /\ W_CONFIDENCE = Dec(25, 100)
    /\ W_CRITICALITY = Dec(20, 100)
    /\ W_URGENCY = Dec(10, 100)
    /\ SAFETY_MULTIPLIER = Dec(15, 10)
    /\ SPARES_PENALTY = Dec(7, 10)
    /\ MANPOWER_PENALTY = Dec(7, 10)
    /\ PRIORITY_IMMEDIATE = FromInt(85)
    /\ PRIORITY_24H = FromInt(70)
    /\ PRIORITY_7D = FromInt(50)
    /\ Hundred = FromInt(100)

\* The priority of a request as the formula gives it in exact arithmetic, in
\* hundredths, as a fraction num / den: with the scores s, c, k, u in
\* hundredths, 100 x (0.45 S + 0.25 C + 0.20 K + 0.10 U) is
\* (45 s + 25 c + 20 k + 10 u) / 100, and the modifiers are 3/2 and 7/10.
ExactDen(q) ==
    (IF q.safety_flag THEN 2 ELSE 1) * (IF q.spares_ready THEN 1 ELSE 10)
        * (IF q.manpower_ready THEN 1 ELSE 10)

ExactUnclamped(q) ==
    (45 * Round2(q.severity_score) + 25 * Round2(q.confidence)
        + 20 * Round2(q.criticality) + 10 * Round2(q.urgency))
      * (IF q.safety_flag THEN 3 ELSE 1) * (IF q.spares_ready THEN 1 ELSE 7)
      * (IF q.manpower_ready THEN 1 ELSE 7)

ExactNum(q) ==
    IF ExactUnclamped(q) > 10000 * ExactDen(q) THEN 10000 * ExactDen(q)
    ELSE ExactUnclamped(q)

Abs(n) == IF n < 0 THEN 0 - n ELSE n

\* score, in hundredths, is num / den rounded to the nearest integer
NearestTo(score, num, den) == 2 * Abs(score * den - num) <= den

ReportedScore(resp) == resp.plan_items[1].priority_score

\* the values of field f among the requests, in hundredths
FieldHundredths(f) ==
    CASE f = "severity_score" -> SeverityHundredths
      [] f = "urgency" -> UrgencyHundredths
      [] OTHER -> ScoreHundredths

\* the next value above k in dom, or k when there is none
NextAbove(k, dom) ==
    IF \E j \in dom : j > k
    THEN CHOOSE j \in dom : j > k /\ \A i \in dom : i > k => i >= j
    ELSE k

\* q with field f raised to the next value of the requests
Raised(q, f) ==
    [q EXCEPT ![f] = Dec(NextAbove(Round2(q[f]), FieldHundredths(f)), 100)]

\* a priority P2 after raising is below neither P nor the score reported
NotLowered(P, score, P2) == FGe(P2, P) /\ Round2(P2) >= score

\* C14: the priority score is clamp(100 x (0.45 S + 0.25 C + 0.20 K + 0.10 U)
\* x M_safe x R_sp x R_mp, 0, 100) with M_safe 1.5 iff the safety flag is
\* set, R_sp 0.7 iff spares are not ready and R_mp 0.7 iff manpower is not
\* ready (every plan item reports it to two decimals); it does not decrease
\* when one of S, C, K, U is raised (to the next value of the requests, the
\* rest fixed), lies in [0, 100], and is exactly 100
\* for S = C = K = U = 1 with the safety flag and spares and manpower ready.
C14_PriorityFormulaMonotoneClamped ==
    /\ PlanLiteralsNearest
    /\ EDone =>
          /\ Len(EResp.plan_items) >= 1
          /\ \A i \in 1..Len(EResp.plan_items) :
                /\ NearestTo(EResp.plan_items[i].priority_score,
                             ExactNum(EReq), ExactDen(EReq))
                /\ EResp.plan_items[i].priority_score \in 0..10000
          /\ \A f \in {"severity_score", "confidence", "criticality", "urgency"} :
                NotLowered(Priority(EReq), ReportedScore(EResp),
                           Priority(Raised(EReq, f)))
          /\ (/\ EReq.severity_score = FOne /\ EReq.confidence = FOne
              /\ EReq.criticality = FOne /\ EReq.urgency = FOne
              /\ EReq.safety_flag /\ EReq.spares_ready /\ EReq.manpower_ready)
             => ReportedScore(EResp) = 10000

\* the all-ones request with the safety flag has been answered with 100
C14_Witness ==
    /\ EDone
    /\ EReq.severity_score = FOne /\ EReq.confidence = FOne
    /\ EReq.criticality = FOne /\ EReq.urgency = FOne
    /\ EReq.safety_flag /\ EReq.spares_ready /\ EReq.manpower_ready
    /\ ReportedScore(EResp) = 10000

\* the window of a score reported in hundredths
WindowOfReported(score) ==
    IF score >= 8500 THEN "Immediate"
    ELSE IF score >= 7000 THEN "24 hours"
    ELSE IF score >= 5000 THEN "7 days"
    ELSE "Next shutdown"

\* C15: each plan item's window is Immediate iff the priority score the item
\* reports is at least 85, 24 hours iff it is at least 70 and below 85,
\* 7 days iff it is at least 50 and below 70, and Next shutdown iff it is
\* below 50.
C15_WindowFromReportedScore ==
    EDone =>
        \A i \in 1..Len(EResp.plan_items) :
            EResp.plan_items[i].window
                = WindowOfReported(EResp.plan_items[i].priority_score)

\* C16: whenever the priority score is at least 85, the shutdown action
\* ACT008 is the first plan item, with rank 1, whatever the diagnosis is.
C16_ShutdownFirstFrom85 ==
    (EDone /\ ExactNum(EReq) >= 8500 * ExactDen(EReq))
    => /\ EResp.plan_items[1].action_id = "ACT008"
       /\ EResp.plan_items[1].rank = 1

\* The same, for the requests whose priority the code computes as at least
\* 85.
C16_ShutdownFirstFromComputed85 ==
    (EDone /\ FGe(Priority(EReq), PRIORITY_IMMEDIATE))
    => /\ EResp.plan_items[1].action_id = "ACT008"
       /\ EResp.plan_items[1].rank = 1

\* no keyword of DIAGNOSIS_ACTION_MAP occurs in the diagnosis
NoKeywordIn(diagnosis) ==
    \/ diagnosis = None
    \/ \A i \in 1..Len(DIAGNOSIS_ACTION_MAP) :
          ~Contains(Lower(diagnosis[1]), DIAGNOSIS_ACTION_MAP[i].keyword)

ActionIds(resp) ==
    {resp.plan_items[i].action_id : i \in 1..Len(resp.plan_items)}

\* C17: whenever no keyword of the diagnosis-to-action table occurs in the
\* diagnosis (a missing or empty diagnosis included), the plan contains the
\* confirmation run ACT001, for every priority score.
C17_ConfirmationWhenNothingMatched ==
    (EDone /\ NoKeywordIn(EReq.diagnosis)) => "ACT001" \in ActionIds(EResp)

\* The same, for the priorities the code computes as below 85.
C17_ConfirmationBelow85 ==
    (EDone /\ NoKeywordIn(EReq.diagnosis)
        /\ FLt(Priority(EReq), PRIORITY_IMMEDIATE))
    => "ACT001" \in ActionIds(EResp)

\* ------------------------------------------------------------------------
\* Properties of ReliabilityProjection (checked under SpecReliability)
\* ------------------------------------------------------------------------

FDone == f_response # None
FReq == f_request[1]
FResp == f_response[1]

\* RUL_MAX_DAYS in hundredths of a day
CapHundredths == 365000

ReliabilityLiteralsNearest ==
    /\ F1em9 = Dec(1, 1000000000)
    /\ RUL_MAX_DAYS.mag = FromInt(3650)
    /\ Round2(RUL_MAX_DAYS.mag) = CapHundredths
    /\ ACCEL_MODEL_THRESHOLD.mag = Dec(1, 100)
    /\ INSTABILITY_THRESHOLD.mag = Dec(6, 10)

BelowThreshold(q) == SCmp(q.current_value, q.failure_threshold) < 0

NoSlope(q) == FLt(q.slope_log.mag, F1em9)

\* C18: RUL_days is 0 if and only if current_value >= failure_threshold; for
\* current_value < failure_threshold the RUL is strictly positive, whatever
\* slope_log, slope_change and NLI are (a negative slope and a current value
\* of 0 included).
C18_ZeroIffAtThreshold ==
    FDone => (FResp.RUL_days = 0 <=> ~BelowThreshold(FReq))

\* At or above the threshold the RUL is 0.
C18_ZeroAtThreshold ==
    (FDone /\ ~BelowThreshold(FReq)) => FResp.RUL_days = 0

FallsBack(q) ==
    /\ SCmp(q.slope_change, ACCEL_MODEL_THRESHOLD) >= 0
    /\ SCmp(SAdd(q.slope_log, q.slope_change), SFloat(FALSE, F1em9)) <= 0

\* the slope the model divides by
DividingSlope(q) ==
    IF SCmp(q.slope_change, ACCEL_MODEL_THRESHOLD) >= 0
    THEN SAdd(q.slope_log, q.slope_change)
    ELSE q.slope_log

\* ln(threshold / current) is at least 3650 times the slope divided by
ProjectsBeyondCap(q) ==
    /\ ~DividingSlope(q).neg
    /\ SCmp(safe_ln_ratio(q.failure_threshold, q.current_value),
            SMul(RUL_MAX_DAYS, DividingSlope(q))) >= 0

BpDone == bp_response # None
BpReq == bp_request[1]
BpResp == bp_response[1]

SlopeLiteralsNearest ==
    /\ STEP_JUMP_THRESHOLD = Dec(5, 10)
    /\ CHAOTIC_VOLATILITY_THRESHOLD = Dec(3, 10)
    /\ CHAOTIC_SLOPE_MAX = Dec(2, 100)
    /\ ACCEL_SLOPE_THRESHOLD = Dec(5, 100)
    /\ ACCEL_CHANGE_THRESHOLD = Dec(2, 100)
    /\ DRIFT_SLOPE_THRESHOLD = Dec(2, 100)
    /\ NLI_MULTIPLIER = FromInt(5)
    /\ Ten = FromInt(10)
    /\ Eight = FromInt(8)
    /\ Three = FromInt(3)

TrendOrder == <<"Step", "Chaotic", "Accelerating", "Drift", "Stable">>

\* |slope-change| of a request: the difference of the half-window slopes,
\* taken from 4 points on
AbsChange(q) == IF q.n >= 4 THEN SSub(q.slope2, q.slope1).mag ELSE FZero

\* the residual volatility of a request, taken from 3 points on
Volatility(q) == IF q.n >= 3 THEN q.std ELSE FZero

\* the predicate of a trend class on a request
Satisfies(q, class) ==
    CASE class = "Step" -> CmpDecimal(q.max_jump, 5, 10) > 0
      [] class = "Chaotic" ->
            /\ CmpDecimal(Volatility(q), 3, 10) > 0
            /\ CmpDecimal(q.slope.mag, 2, 100) < 0
      [] class = "Accelerating" ->
            /\ CmpDecimal(q.slope.mag, 5, 100) > 0
            /\ CmpDecimal(AbsChange(q), 2, 100) > 0
      [] class = "Drift" -> CmpDecimal(q.slope.mag, 2, 100) > 0
      [] class = "Stable" -> TRUE

\* class i of TrendOrder is the first one whose predicate q satisfies
FirstSatisfied(q, i) ==
    /\ Satisfies(q, TrendOrder[i])
    /\ \A j \in 1..(i - 1) : ~Satisfies(q, TrendOrder[j])

\* C20: for a series of at least 2 points the trend class returned is the
\* one of the first satisfied predicate in the order Step (largest jump
\* above 0.5), Chaotic (volatility above 0.3 and |slope| below 0.02),
\* Accelerating (|slope| above 0.05 and |slope-change| above 0.02), Drift
\* (|slope| above 0.02), else Stable: exactly one class, the earliest of
\* those satisfied; fewer than 2 points give Stable with severity 0.
C20_FirstSatisfiedTrendClass ==
    /\ SlopeLiteralsNearest
    /\ BpDone =>
          /\ BpReq.n >= 2 =>
                \E i \in 1..Len(TrendOrder) :
                    /\ BpResp.trend_class = TrendOrder[i]
                    /\ FirstSatisfied(BpReq, i)
          /\ BpReq.n < 2 =>
                /\ BpResp.trend_class = "Stable"
                /\ BpResp.severity_score = 0

\* a series satisfying both Step and Accelerating has been classed as Step
C20_Witness ==
    /\ BpDone
    /\ BpReq.n >= 4
    /\ Satisfies(BpReq, "Step")
    /\ Satisfies(BpReq, "Accelerating")
    /\ BpResp.trend_class = "Step"

\* ------------------------------------------------------------------------
\* Properties of StabilityLens (checked under SpecStability)
\* ------------------------------------------------------------------------

BppDone == bpp_response # None
BppReq == bpp_request[1]
BppResp == bpp_response[1]

\* checked in the initial state
StabilityLiteralsNearest ==
    /\ F020 = Dec(2, 10)
    /\ F030 = Dec(3, 10)
    /\ F035 = Dec(35, 100)
    /\ F040 = Dec(4, 10)
    /\ F060 = Dec(6, 10)
    /\ F065 = Dec(65, 100)
    /\ F070 = Dec(7, 10)

\* the pre-computed inputs SE = 0.4, TE = 0.3, DE = 0.2 with dSE_dt 0.0 or
\* left out
IsScenario(mBpp_req) ==
    /\ mBpp_req.metrics # None
    /\ mBpp_req.metrics[1].SE = Some(SFloat(FALSE, F040))
    /\ mBpp_req.metrics[1].TE = Some(SFloat(FALSE, F030))
    /\ mBpp_req.metrics[1].DE = Some(SFloat(FALSE, F020))
    /\ mBpp_req.metrics[1].dSE_dt \in {None, Some(SZero)}

\* C21 as stated: for the pre-computed inputs SE = 0.4, TE = 0.3, DE = 0.2,
\* dSE/dt = 0, StabilityLens returns SI = 0.73 and the state Stable.
C21_ScenarioStable ==
    BppDone /\ IsScenario(BppReq) =>
        BppResp.SI = 7300 /\ BppResp.stability_state = "Stable"

\* C21, amended: for the pre-computed inputs SE = 0.4, TE = 0.3, DE = 0.2,
\* dSE/dt = 0, StabilityLens returns SI = 0.67, which is
\* 1 - (0.5 x 0.4 + 0.3 x 0.3 + 0.2 x 0.2), and the state Drifting with the
\* severity level watch, SE lying between 0.35 and 0.65.
C21_ScenarioDrifting ==
    /\ ~BppDone => StabilityLiteralsNearest
    /\ BppDone /\ IsScenario(BppReq) =>
          /\ BppResp.SI = 6700
          /\ BppResp.stability_state = "Drifting"
          /\ BppResp.severity_level = "watch"

\* the scenario has been answered and the response echoes its inputs
C21_Witness ==
    /\ BppDone
    /\ IsScenario(BppReq)
    /\ BppResp.SE = 4000 /\ BppResp.TE = 3000 /\ BppResp.DE = 2000
    /\ BppResp.dSE_dt = 0

\* 1 - (0.5 SE + 0.3 TE + 0.2 DE) clamped to [0, 1], in exact arithmetic and
\* in units of 1e-5, of the metrics the response echoes (ten-thousandths;
\* the metrics of the requests have at most four decimals)
ExactSI(resp) ==
    LET si == 100000 - (5 * resp.SE + 3 * resp.TE + 2 * resp.DE)
    IN  IF si < 0 THEN 0 ELSE IF si > 100000 THEN 100000 ELSE si

\* the first satisfied rule of the order SI <= 0.40, SE >= 0.65 with TE or
\* DE >= 0.60, dSE/dt >= 0.02 with SI < 0.60, 0.35 < SE < 0.65 with
\* dSE/dt < 0.02; si is in units of 1e-5
StateInOrder(resp, si) ==
    IF si <= 40000 THEN "Critical_Instability"
    ELSE IF resp.SE >= 6500 /\ (resp.TE >= 6000 \/ resp.DE >= 6000) THEN "Chaotic"
    ELSE IF resp.dSE_dt >= 200 /\ si < 60000 THEN "Destabilizing"
    ELSE IF resp.SE > 3500 /\ resp.SE < 6500 /\ resp.dSE_dt < 200 THEN "Drifting"
    ELSE "Stable"

SeverityOfState(state) ==
    CASE state = "Critical_Instability" -> "alarm"
      [] state \in {"Chaotic", "Destabilizing"} -> "warning"
      [] state = "Drifting" -> "watch"
      [] state = "Stable" -> "normal"

StabilityAsClaimed(resp, si) ==
    /\ Abs(10 * resp.SI - si) <= 5
    /\ resp.stability_state = StateInOrder(resp, si)
    /\ resp.severity_level = SeverityOfState(resp.stability_state)

\* C25: StabilityLens determines the state by the first satisfied rule in the
\* order SI <= 0.40 Critical_Instability (alarm), SE >= 0.65 and (TE >= 0.60
\* or DE >= 0.60) Chaotic (warning), dSE/dt >= 0.02 and SI < 0.60
\* Destabilizing (warning), 0.35 < SE < 0.65 and dSE/dt < 0.02 Drifting
\* (watch), else Stable (normal); SI is 1 - (0.5 SE + 0.3 TE + 0.2 DE)
\* clamped to [0, 1], one state is returned and the severity level is the
\* one paired with it.
C25_FirstSatisfiedStateRule ==
    BppDone => StabilityAsClaimed(BppResp, ExactSI(BppResp))

\* The same, for the inputs whose SI is not exactly 0.40 or 0.60.
C25_FirstSatisfiedOffThresholds ==
    BppDone /\ ExactSI(BppResp) \notin {40000, 60000} =>
        StabilityAsClaimed(BppResp, ExactSI(BppResp))

\* The same, with the SI the response reports in place of the exact one.
C25_FirstSatisfiedOnReportedSI ==
    BppDone => StabilityAsClaimed(BppResp, 10 * BppResp.SI)

\* ------------------------------------------------------------------------
\* Properties of InitiatorRules (checked under SpecInitiators)
\* ------------------------------------------------------------------------

BDone == b_response # None
BReq == b_request[1]
BResp == b_response[1]

\* checked in the initial state
InitiatorLiteralsNearest ==
    /\ \A h \in DOMAIN Literal : Literal[h] = Dec(h, 100)
    /\ F0001 = Dec(1, 1000)
    /\ F1em9 = FDiv(FOne, FromInt(1000000000))

\* The rule taken by itself: its AND conditions are all met, or one of its
\* OR conditions is.
RuleHolds(rule, derived) ==
    \/ \A i \in DOMAIN rule.conditions : Met(rule.conditions[i], derived)
    \/ \E i \in DOMAIN rule.or_conditions : Met(rule.or_conditions[i], derived)

\* the rules of a family that hold, each taken by itself, in table order
RulesHolding(rules, derived) ==
    LET Test(rule) == RuleHolds(rule, derived)
    IN  SelectSeq(rules, Test)

\* the component names no family of RULES_DB, in whatever case
UnknownFamily(component) ==
    \A i \in DOMAIN RULES_DB : RULES_DB[i][1] # Lower(component)

\* the largest base severity of the rules, in ten-thousandths, 0 for none
MaxSeverity(rules) ==
    IF rules = <<>> THEN 0
    ELSE CHOOSE s \in {100 * rules[i].severity_base : i \in DOMAIN rules} :
            \A i \in DOMAIN rules : 100 * rules[i].severity_base <= s

InitiatorsAsClaimed(resp, holding) ==
    /\ [i \in DOMAIN resp.matched_rules |-> resp.matched_rules[i].rule_id]
          = [i \in DOMAIN holding |-> holding[i].rule_id]
    /\ resp.num_matches = Len(holding)
    /\ resp.confidence = MaxSeverity(holding)
    /\ resp.confidence = 0 <=> holding = <<>>

\* C22: the confidence is the maximum base severity over the rules that
\* matched, not their sum, and is 0 if and only if no rule matched;
\* num_matches is the number of matched rules; the matched rules are exactly
\* the rules of the family that hold when each is taken by itself; and an
\* unknown component family gives an empty match set with confidence 0
\* rather than an error.
C22_ConfidenceIsMaxOfMatched ==
    /\ ~BDone => InitiatorLiteralsNearest
    /\ BDone =>
          /\ InitiatorsAsClaimed(BResp,
                RulesHolding(rules_of(Lower(BReq.component)),
                             compute_derived(BReq.metrics)))
          /\ UnknownFamily(BReq.component) =>
                /\ BResp.matched_rules = <<>>
                /\ BResp.num_matches = 0
                /\ BResp.confidence = 0

\* several rules of different base severities have matched, and the
\* confidence is the largest of them
C22_Witness ==
    /\ BDone
    /\ BResp.num_matches >= 3
    /\ \E i, j \in DOMAIN BResp.matched_rules :
          /\ i < j
          /\ FGt(BResp.matched_rules[i].score, BResp.matched_rules[j].score)
          /\ BResp.confidence = Round4(BResp.matched_rules[i].score)

\* ------------------------------------------------------------------------
\* The weights and the block scores of Fusion (checked under SpecFusion)
\* ------------------------------------------------------------------------

\* the dict of weights run applies to the blocks of a request
AppliedWeights(mC_req) ==
    load_and_normalize_weights(mC_req.system_type, mC_req.blocks).weights

\* the weights applied to the blocks supplied, one entry per block
SuppliedWeights(blocks, weights) ==
    [i \in 1..Len(blocks) |->
        [name |-> blocks[i].name, w |-> WeightOf(weights, blocks[i].name)]]

\* the block scores of a request as ten-thousandths
ScoresOf(blocks) ==
    {Round4(compute_block_scores(blocks)[i].score) : i \in 1..Len(blocks)}

SumsToOne(supplied) ==
    /\ FGe(FSum(supplied, FZero), F099)
    /\ FLe(FSum(supplied, FZero), F101)

WithinScores(ssi, scores) ==
    /\ \E s \in scores : s <= ssi
    /\ \E s \in scores : ssi <= s

WeightsAsClaimed(mC_req, resp, supplied) ==
    /\ SumsToOne(supplied)
    /\ \A i \in 1..Len(supplied) : supplied[i].w # FZero
    /\ mC_req.stability_state # Some("Critical_Instability") =>
          WithinScores(resp.SSI, ScoresOf(mC_req.blocks))

\* every supplied block is named by the weights of the profile, or the
\* system type has no named profile
AllBlocksWeighed(mC_req) ==
    \/ DOMAIN ProfileOf(mC_req.system_type).weights = {}
    \/ \A i \in 1..Len(mC_req.blocks) :
          mC_req.blocks[i].name \in DOMAIN ProfileOf(mC_req.system_type).weights

\* C23: for a request with at least one block the weights applied to the
\* supplied blocks sum to 1 within 0.01 (the weights of the profile
\* renormalized over the blocks supplied, or 1/n each without a named
\* profile); so, unless the stability state is Critical_Instability, the SSI
\* lies between the smallest and the largest block score, and no supplied
\* block has the weight 0.
C23_AppliedWeightsSumToOne ==
    CDone /\ CReq.blocks # <<>> =>
        WeightsAsClaimed(CReq, CResp,
                         SuppliedWeights(CReq.blocks, AppliedWeights(CReq)))

\* The same, for the requests all of whose blocks the profile weighs.
C23_WeightsSumToOneWhenAllWeighed ==
    CDone /\ CReq.blocks # <<>> /\ AllBlocksWeighed(CReq) =>
        WeightsAsClaimed(CReq, CResp,
                         SuppliedWeights(CReq.blocks, AppliedWeights(CReq)))

\* ------------------------------------------------------------------------
\* Properties of the block score (checked under SpecBlockScore)
\* ------------------------------------------------------------------------

\* The rows of the table, in order: whether the input satisfies the row and
\* the value of the row in hundredths. Scores are in hundredths.
BlockScoreRows(x) ==
    <<[holds |-> x.B_match_score >= 90, value |-> 90],
      [holds |-> x.Bplus_trend_class = "Accelerating" /\ x.Bplus_confidence >= 70,
       value |-> 85],
      [holds |-> x.Bplus_trend_class = "Step" /\ x.Bplus_confidence >= 70,
       value |-> 80],
      [holds |-> x.Bplus_trend_class = "Drift" /\ x.Bplus_confidence >= 60,
       value |-> 65],
      [holds |-> x.Bplus_trend_class = "Chaotic" /\ x.process_correlation >= 70,
       value |-> 35],
      [holds |-> /\ x.B_match_score >= 70
                 /\ (x.Bplus_trend_class = "Stable" \/ x.Bplus_confidence < 50),
       value |-> 55],
      [holds |-> x.B_match_score < 30 /\ x.Bplus_trend_class = "Stable",
       value |-> 15],
      [holds |-> TRUE, value |-> 40]>>

\* the first row that holds
FirstRow(rows) ==
    CHOOSE i \in DOMAIN rows : rows[i].holds /\ \A j \in 1..(i - 1) : ~rows[j].holds

\* C24: the block score is the value of the first matching row of the table
\* match-score >= 0.90: 0.90; Accelerating and confidence >= 0.70: 0.85; Step
\* and confidence >= 0.70: 0.80; Drift and confidence >= 0.60: 0.65; Chaotic
\* and process-correlation >= 0.70: 0.35; match-score >= 0.70 and (Stable or
\* confidence < 0.50): 0.55; match-score < 0.30 and Stable: 0.15; otherwise
\* 0.40. It is one of these eight values, and an input satisfying several
\* rows gets the value of the earliest.
C24_FirstMatchingRow ==
    bs_score # None =>
        /\ bs_score[1] = Dec(BlockScoreRows(bs_input[1])[FirstRow(BlockScoreRows(bs_input[1]))].value, 100)
        /\ Round4(bs_score[1]) \in {9000, 8500, 8000, 6500, 3500, 5500, 1500, 4000}

\* an input that satisfies the first, the second and the last row has got
\* the value of the first
C24_Witness ==
    /\ bs_score # None
    /\ bs_input[1].B_match_score >= 90
    /\ bs_input[1].Bplus_trend_class = "Accelerating"
    /\ bs_input[1].Bplus_confidence >= 70
    /\ Round4(bs_score[1]) = 9000

\* ------------------------------------------------------------------------
\* Sub-model selection of ReliabilityProjection (checked under
\* SpecReliability)
\* ------------------------------------------------------------------------

\* ln(threshold / current) of a request with a positive current value
ClaimedLnRatio(q) == Log(FDiv(q.failure_threshold.mag, q.current_value.mag))

\* the accelerating quotient iff slope_change >= 0.01, with the cap when
\* slope_log + slope_change is not positive; the linear quotient otherwise
ClaimedSubModel(q) ==
    IF SCmp(q.slope_change, SFloat(FALSE, Dec(1, 100))) >= 0
    THEN IF SCmp(SAdd(q.slope_log, q.slope_change), SZero) > 0
         THEN SDiv(ClaimedLnRatio(q), SAdd(q.slope_log, q.slope_change))
         ELSE SFloat(FALSE, FromInt(3650))
    ELSE SDiv(ClaimedLnRatio(q), q.slope_log)

\* multiplied by (1 - NLI) iff NLI >= 0.6
ClaimedAdjusted(q) ==
    IF SCmp(q.instability_index_NLI, SFloat(FALSE, Dec(6, 10))) >= 0
    THEN SMul(ClaimedSubModel(q),
              SSub(SFloat(FALSE, FOne), q.instability_index_NLI))
    ELSE ClaimedSubModel(q)

\* clamped to [0, 3650] and reported in hundredths of a day
ClaimedRul(q) ==
    IF ClaimedAdjusted(q).neg THEN 0
    ELSE IF FGt(ClaimedAdjusted(q).mag, FromInt(3650)) THEN CapHundredths
    ELSE Round2(ClaimedAdjusted(q).mag)

PositiveCurrent(q) == SCmp(q.current_value, SZero) > 0

\* current_value is at most 1e-12: the logarithm is replaced by 0
LnGuarded(q) == SCmp(q.current_value, SFloat(FALSE, F1em12)) <= 0

\* the accelerating model meets an effective slope in (0, 1e-9]
TinyEffectiveSlope(q) ==
    /\ FallsBack(q)
    /\ SCmp(SAdd(q.slope_log, q.slope_change), SZero) > 0

\* C26: for current < threshold and |slope_log| >= 1e-9 the RUL is
\* ln(threshold/current)/(slope_log + slope_change) iff slope_change >= 0.01
\* (the 3650-day cap when slope_log + slope_change is not positive) and
\* ln(threshold/current)/slope_log otherwise, multiplied by (1 - NLI) iff
\* NLI >= 0.6; the returned RUL is always within [0, 3650].
C26_SubModelByCondition ==
    /\ FDone => (FResp.RUL_days >= 0 /\ FResp.RUL_days <= CapHundredths)
    /\ (FDone /\ BelowThreshold(FReq) /\ ~NoSlope(FReq)
          /\ PositiveCurrent(FReq))
       => FResp.RUL_days = ClaimedRul(FReq)

\* The same selection, away from the two guards of the code: a current value
\* above 1e-12 and no effective slope in (0, 1e-9].
C26_SubModelOffGuards ==
    /\ FDone => (FResp.RUL_days >= 0 /\ FResp.RUL_days <= CapHundredths)
    /\ (FDone /\ BelowThreshold(FReq) /\ ~NoSlope(FReq)
          /\ ~LnGuarded(FReq) /\ ~TinyEffectiveSlope(FReq))
       => FResp.RUL_days = ClaimedRul(FReq)

\* The selection fails on the logarithm guard alone: a positive current value
\* of at most 1e-12 with an effective slope outside (0, 1e-9].
C26_SubModelOffTinySlope ==
    (FDone /\ BelowThreshold(FReq) /\ ~NoSlope(FReq)
       /\ PositiveCurrent(FReq) /\ ~TinyEffectiveSlope(FReq))
    => FResp.RUL_days = ClaimedRul(FReq)

\* NLI exactly 0.6 adjusts: a linear projection of 1.26 days reported as 0.5
C26_AdjustsAtThreshold ==
    /\ FDone
    /\ BelowThreshold(FReq) /\ ~NoSlope(FReq) /\ ~LnGuarded(FReq)
    /\ FReq.instability_index_NLI.mag = Dec(6, 10)
    /\ SCmp(FReq.slope_change, SZero) = 0
    /\ FResp.RUL_days > 0
    /\ FResp.RUL_days < CapHundredths
    /\ FResp.RUL_days = ClaimedRul(FReq)

\* The selection fails on the slope guard alone: a current value above 1e-12
\* and an effective slope in (0, 1e-9], where the code answers from the cap.
C26_SubModelOffLnGuard ==
    (FDone /\ BelowThreshold(FReq) /\ ~NoSlope(FReq) /\ ~LnGuarded(FReq))
    => FResp.RUL_days = ClaimedRul(FReq)

\* ------------------------------------------------------------------------
\* The action list of MaintenancePlan (checked under SpecPlan)
\* ------------------------------------------------------------------------

\* the action ids selected for a request before deduplication: the forced
\* shutdown action, then the act_ids of the matched keywords in table order
Selected(q) ==
    WithShutdown(Priority(q),
                 IF q.diagnosis # None
                 THEN MatchedFrom(Lower(q.diagnosis[1]), 1) ELSE <<>>)

ActionList(resp) ==
    [i \in 1..Len(resp.plan_items) |-> resp.plan_items[i].action_id]

\* the index of the first occurrence of a in the sequence sel
FirstOccurrence(sel, a) ==
    CHOOSE k \in 1..Len(sel) :
        sel[k] = a /\ \A j \in 1..(k - 1) : sel[j] # a

\* ids lists every element of sel once, in the order of first occurrence
InFirstOccurrenceOrder(ids, sel) ==
    /\ {ids[i] : i \in 1..Len(ids)} = {sel[k] : k \in 1..Len(sel)}
    /\ \A i, j \in 1..Len(ids) :
          i < j => FirstOccurrence(sel, ids[i]) < FirstOccurrence(sel, ids[j])

PlanAsClaimed(q, resp) ==
    /\ \A i, j \in 1..Len(resp.plan_items) :
          i # j => resp.plan_items[i].action_id # resp.plan_items[j].action_id
    /\ Selected(q) # <<>> => InFirstOccurrenceOrder(ActionList(resp), Selected(q))
    /\ FGe(Priority(q), PRIORITY_IMMEDIATE) => ActionList(resp)[1] = "ACT008"
    /\ \A i \in 1..Len(resp.plan_items) :
          /\ resp.plan_items[i].rank = i
          /\ resp.plan_items[i].priority_score = resp.plan_items[1].priority_score
          /\ resp.plan_items[i].window = resp.plan_items[1].window
    /\ resp.total_actions = Len(resp.plan_items)
    /\ Len(resp.plan_items) >= 1

\* C27: in every response no action id appears twice; the actions are in
\* first-occurrence order of selection (the forced shutdown action first,
\* then the action ids of the matched keywords in keyword-table order); the
\* ranks are 1..N in that order; all items carry the same priority score and
\* the same window; total_actions is N; and N >= 1.
C27_PlanIsDeduplicatedAndRanked ==
    EDone => PlanAsClaimed(EReq, EResp)

\* a plan whose selection named an action twice: the shutdown forced on top
\* of a diagnosis that matches two keywords sharing ACT001
C27_Witness ==
    /\ EDone
    /\ Selected(EReq) = <<"ACT008", "ACT004", "ACT001", "ACT006", "ACT001">>
    /\ ActionList(EResp) = <<"ACT008", "ACT004", "ACT001", "ACT006">>
    /\ EResp.plan_items[4].rank = 4
    /\ EResp.total_actions = 4

\* a plan without a selection: the confirmation run alone
C27_ConfirmationRunAlone ==
    /\ EDone
    /\ Selected(EReq) = <<>>
    /\ ActionList(EResp) = <<"ACT001">>

\* ------------------------------------------------------------------------
\* The missing-RPM penalty of DataGuard (checked under SpecDataGuard)
\* ------------------------------------------------------------------------

\* the request supplies no RPM value: a context record without rpm, or no
\* context record at all
NoRpmSupplied(q) == q.context = None \/ q.context[1].rpm = None

HasReason(resp, code) == \E i \in 1..Len(resp.reasons) : resp.reasons[i] = code

WithoutCode(codes, code) == SelectSeq(codes, LAMBDA c : c # code)

\* the 0.85 factor is among the penalties multiplied into the quality score,
\* with its DG_013 reason: the score is the rounded product of the factors of
\* the reasons, DG_013 among them, and exactly 85 % of the product without it
RpmPenaltyApplied(resp) ==
    /\ HasReason(resp, "DG_013")
    /\ resp.quality_score = ScoreOf(resp.reasons)
    /\ 100 * ExactProduct7(resp.reasons)
          = 85 * ExactProduct7(WithoutCode(resp.reasons, "DG_013"))

RpmPenaltyNotApplied(resp) ==
    /\ ~HasReason(resp, "DG_013")
    /\ resp.quality_score = ScoreOf(resp.reasons)

\* C28: in a non-blocked evaluation the 0.85 missing-RPM penalty is applied
\* whenever the request supplies no RPM value (a context record without rpm,
\* or no context record at all) and never when an RPM value is supplied; when
\* it is applied a DG_013 reason is attached.
C28_PenaltyIffNoRpmSupplied ==
    (DgDone /\ ~DgResp.block) =>
        IF NoRpmSupplied(DgReq) THEN RpmPenaltyApplied(DgResp)
        ELSE RpmPenaltyNotApplied(DgResp)

\* With a context record in the request the penalty follows its rpm field.
C28_PenaltyIffContextLacksRpm ==
    (DgDone /\ ~DgResp.block /\ DgReq.context # None) =>
        IF DgReq.context[1].rpm = None THEN RpmPenaltyApplied(DgResp)
        ELSE RpmPenaltyNotApplied(DgResp)

\* Without a context record no evaluation is penalised for the missing RPM.
C28_NoPenaltyWithoutContext ==
    (DgDone /\ ~DgResp.block /\ DgReq.context = None) =>
        RpmPenaltyNotApplied(DgResp)

\* a clean request without a context record, answered with quality 1.0
C28_CleanWithoutContext ==
    /\ DgDone /\ ~DgResp.block
    /\ DgReq.context = None
    /\ DgResp.reasons = <<>>
    /\ DgResp.quality_score = 10000
    /\ DgResp.status = "pass"

\* a request whose context record lacks rpm, answered with DG_013 alone
C28_PenalisedWithContext ==
    /\ DgDone /\ ~DgResp.block
    /\ DgReq.context # None /\ DgReq.context[1].rpm = None
    /\ DgResp.reasons = <<"DG_013">>
    /\ DgResp.quality_score = 8500

\* ------------------------------------------------------------------------
\* Monotonicity of HealthStage (checked under SpecHealth)
\* ------------------------------------------------------------------------

LevelRank(level) ==
    CASE level = "Level_0" -> 0
      [] level = "Level_1" -> 1
      [] level = "Level_2" -> 2
      [] level = "Level_3" -> 3

\* q2 has the slope of q and an SSI that is not smaller, or the SSI of q and
\* a slope that is not smaller
NotBelow(q, q2) ==
    \/ q2.SSI_slope = q.SSI_slope /\ FCmp(q.SSI, q2.SSI) <= 0
    \/ q2.SSI = q.SSI /\ SCmp(q.SSI_slope, q2.SSI_slope) <= 0

\* resp is not higher than resp2, in stage and in escalation level
NotHigher(resp, resp2) ==
    /\ StageRank(resp.degradation_stage) <= StageRank(resp2.degradation_stage)
    /\ LevelRank(resp.escalation_level) <= LevelRank(resp2.escalation_level)

\* C29: for SSI values a <= b with the same slope, and for slopes s <= t with
\* the same SSI, the stage returned for the smaller input is never higher
\* than the stage returned for the larger one in the order Healthy <
\* Degrading < Unstable < Critical, and likewise the escalation level;
\* HealthStage never returns Blocked.
C29_StageMonotone ==
    DDone =>
        /\ DResp.degradation_stage
              \in {"Healthy", "Degrading", "Unstable", "Critical"}
        /\ \A q2 \in ModuleDRequests :
              NotBelow(DReq, q2) => NotHigher(DResp, moduleD_run(q2))

\* a Healthy SSI escalated to Degrading by its slope, beside a larger SSI
\* that the same slope leaves at Degrading
C29_Witness ==
    /\ DDone
    /\ StageOfSSI(DReq.SSI) = "Healthy"
    /\ DResp.degradation_stage = "Degrading"
    /\ \E q2 \in ModuleDRequests :
          /\ q2.SSI_slope = DReq.SSI_slope
          /\ FCmp(DReq.SSI, q2.SSI) < 0
          /\ StageOfSSI(q2.SSI) = "Degrading"
          /\ moduleD_run(q2).degradation_stage = "Degrading"

\* ------------------------------------------------------------------------
\* Properties of classify_severity and classify_ssi (checked under
\* SpecClassify)
\* ------------------------------------------------------------------------

ClDone == cl_level # None
ClIn == cl_input[1]
ClLevel == cl_level[1]

ClassifyLiteralsNearest ==
    /\ F030 = Dec(30, 100) /\ F050 = Dec(50, 100) /\ F060 = Dec(60, 100)
    /\ F080 = Dec(80, 100) /\ F101 = Dec(101, 100)

\* the levels of a function, lowest first
LevelsOf(function) ==
    IF function = "classify_severity"
    THEN <<"normal", "watch", "warning", "alarm">>
    ELSE <<"stable", "degrading", "unstable", "critical">>

\* the boundaries of a function, in hundredths
BoundariesOf(function) ==
    IF function = "classify_severity" THEN <<30, 50, 80>> ELSE <<30, 60, 80>>

RankIn(levels, level) == CHOOSE i \in 1..Len(levels) : levels[i] = level

\* a float of either sign is at least the decimal n / 100 > 0
AtLeastHundredths(s, n) == ~s.neg /\ CmpDecimal(s.mag, n, 100) >= 0

\* the bucket of a score by the half-open buckets: one more than the number
\* of boundaries the score has reached
BucketOf(function, score) ==
    1 + Cardinality({i \in 1..3 :
                        AtLeastHundredths(score, BoundariesOf(function)[i])})

\* the level of score is not higher than the level of any larger score
MonotoneAt(function, score, level) ==
    \A b \in ClassifyScores :
        SCmp(score, b) <= 0 =>
            RankIn(LevelsOf(function), level)
                <= RankIn(LevelsOf(function), Classified(function, b))

\* C30: classify_severity and classify_ssi are total and monotone over all
\* numeric inputs, values below 0 and above 1 included: for scores a <= b the
\* level of a is never higher than the level of b (normal < watch < warning <
\* alarm, resp. stable < degrading < unstable < critical), with half-open
\* buckets at 0.30, 0.50, 0.80 (resp. 0.30, 0.60, 0.80), a score on a
\* boundary falling in the upper bucket.
C30_ClassifyTotalMonotone ==
    ClDone =>
        /\ \E i \in 1..4 : ClLevel = LevelsOf(ClIn.function)[i]
        /\ MonotoneAt(ClIn.function, ClIn.score, ClLevel)
        /\ ClLevel = LevelsOf(ClIn.function)[BucketOf(ClIn.function, ClIn.score)]

\* The same for the scores that are not negative.
C30_MonotoneFromZero ==
    /\ ClassifyLiteralsNearest
    /\ (ClDone /\ ~ClIn.score.neg) =>
          /\ MonotoneAt(ClIn.function, ClIn.score, ClLevel)
          /\ ClLevel
                = LevelsOf(ClIn.function)[BucketOf(ClIn.function, ClIn.score)]

\* Every function returns one of its four levels, and a negative score is
\* given the highest of them.
C30_NegativeIsHighest ==
    ClDone =>
        /\ \E i \in 1..4 : ClLevel = LevelsOf(ClIn.function)[i]
        /\ ClIn.score.neg => ClLevel = LevelsOf(ClIn.function)[4]

\* classify_ssi on floats of either sign agrees with the classification the
\* fusion stage applies to its SSI
C30_SignedAgrees ==
    (ClDone /\ ~ClIn.score.neg /\ ClIn.function = "classify_ssi")
    => ClLevel = classify_ssi(ClIn.score.mag)

\* a score of -0.01 has been classified as alarm
C30_NegativeAlarm ==
    /\ ClDone
    /\ ClIn.function = "classify_severity"
    /\ ClIn.score = Signed(-1, 100)
    /\ ClLevel = "alarm"

\* a score exactly on the boundary 0.60 has been classified as unstable
C30_BoundaryInUpperBucket ==
    /\ ClDone
    /\ ClIn.function = "classify_ssi"
    /\ ClIn.score = Signed(60, 100)
    /\ ClLevel = "unstable"

====
